---- MODULE Spec2Model ----
(***************************************************************************)
(* Model of the parser-combinator core of ilo-token (src/src/parser.ts and *)
(* the parser library revision that adds lookAhead and filter).            *)
(*                                                                         *)
(* A source string is a sequence of one-character strings.  A parser is a  *)
(* term [op, arg, subs]; Run(p, src) is the application p.parser(src).     *)
(* An Output is the record [output, errors] of the aggregator class.       *)
(***************************************************************************)
EXTENDS Integers, Sequences, FiniteSets, TLC

\* ------------------------------------------------------------------ bounds
MaxLen == 3
MaxAlts == 3

Alphabet == {"a", "b", "\n"}

\* All source strings of length 0..MaxLen
Inputs == UNION {[1..n -> Alphabet] : n \in 0..MaxLen}

\* ------------------------------------------------------------------ values
\* Parsed values: strings, null and arrays, in one record shape.
Str(s) == [t |-> "str", s |-> s, l |-> <<>>]
Null == [t |-> "null", s |-> <<>>, l |-> <<>>]
List(l) == [t |-> "list", s |-> <<>>, l |-> l]

\* error.ts
UnreachableError == [kind |-> "Unreachable", msg |-> <<"Reached unreachable error.">>]
UnrecognizedError(token) == [kind |-> "Unrecognized", msg |-> token \o <<" is unrecognized.">>]

ErrorKinds == {"Unexpected", "Unreachable", "Covered", "Unrecognized", "Todo"}

\* ------------------------------------------------------------------ Output
\* new Output([...]), new Output(error), new Output()
OutputOf(list) == [output |-> list, errors |-> <<>>]
OutputError(e) == [output |-> <<>>, errors |-> <<e>>]
OutputNone == [output |-> <<>>, errors |-> <<>>]

isError(o) == o.output = <<>>

\* union of two aggregators: successes are concatenated and hide failures;
\* two failures are summarized by keeping the errors of both, in order
append(a, b) ==
  IF a.output # <<>> \/ b.output # <<>>
  THEN [output |-> a.output \o b.output, errors |-> <<>>]
  ELSE [output |-> <<>>, errors |-> a.errors \o b.errors]

RECURSIVE appendAll(_, _)
appendAll(outs, acc) ==
  IF outs = <<>> THEN acc ELSE appendAll(Tail(outs), append(acc, Head(outs)))

\* Output.flatMap: the union of the Outputs the mapper returned, fs[i] being
\* the one returned for the i-th success o.output[i]
flatMap(o, fs) ==
  IF isError(o) THEN [output |-> <<>>, errors |-> o.errors]
  ELSE appendAll(fs, OutputNone)

\* A mapper call either returns a value or throws: [ok, v, err]
Returned(v) == [ok |-> TRUE, v |-> v, err |-> UnreachableError]
Thrown(e) == [ok |-> FALSE, v |-> Null, err |-> e]

\* Output.map: values whose mapper throws are dropped, their errors noted;
\* rs[i] is the outcome of the mapper call for the i-th success
Output_map(o, rs) ==
  IF isError(o) THEN [output |-> <<>>, errors |-> o.errors]
  ELSE appendAll([i \in 1..Len(o.output) |->
                    IF rs[i].ok THEN OutputOf(<<rs[i].v>>)
                    ELSE OutputError(rs[i].err)],
                 OutputNone)

\* A predicate call either returns a boolean or throws: [ok, keep, err]
Answered(b) == [ok |-> TRUE, keep |-> b, err |-> UnreachableError]
Refused(e) == [ok |-> FALSE, keep |-> FALSE, err |-> e]

CoveredError == [kind |-> "Covered", msg |-> <<"covered">>]

\* Output.filter: values the predicate rejects (or throws on) are dropped;
\* rs[i] is the outcome of the predicate call for the i-th success
Output_filter(o, rs) ==
  IF isError(o) THEN [output |-> <<>>, errors |-> o.errors]
  ELSE appendAll([i \in 1..Len(o.output) |->
                    IF ~rs[i].ok THEN OutputError(rs[i].err)
                    ELSE IF ~rs[i].keep THEN OutputError(CoveredError)
                    ELSE OutputOf(<<o.output[i]>>)],
                 OutputNone)

RECURSIVE Run(_, _)

\* ------------------------------------------------------------ parser terms
Term(op, arg, subs) == [op |-> op, arg |-> arg, subs |-> subs]
Match(regex) == Term("match", regex, <<>>)
Nothing == Term("nothing", "", <<>>)
Eol == Term("eol", "", <<>>)
Choice(choices) == Term("choice", "", choices)
ChoiceOnlyOne(choices) == Term("choiceOnlyOne", "", choices)
Optional(p) == Term("optional", "", <<p>>)
Sequence(ps) == Term("sequence", "", ps)
Many(p) == Term("many", "", <<p>>)
All(p) == Term("all", "", <<p>>)
LookAhead(p) == Term("lookAhead", "", <<p>>)
Map(p, f) == Term("map", f, <<p>>)
MapCatch(p, f) == Term("mapCatch", f, <<p>>)
Filter(p, f) == Term("filter", f, <<p>>)

\* ------------------------------------------------- mappers and predicates
\* The functions handed to Parser.map, by name.
\*   cons     ([first, rest]) => [first, ...rest]          (many, all)
\*   empty    () => []                                     (many, all)
\*   wrap     (x) => [x]                never throws
\*   onlyB    (m) => m, throws UnrecognizedError unless the match is "b"
\*            (the shape of specificWord / wordFrom)
\*   never    throws UnreachableError for every value
\*            (the shape of the rejecting branch of optionalAlaQuestion)
Mappers == {"wrap", "onlyB", "never"}

MatchArray(text) == List(<<Str(text)>>)

Apply(f, v) ==
  CASE f = "cons" -> Returned(List(<<v.l[1]>> \o v.l[2].l))
    [] f = "empty" -> Returned(List(<<>>))
    [] f = "wrap" -> Returned(List(<<v>>))
    [] f = "onlyB" -> IF v = MatchArray(<<"b">>) THEN Returned(v)
                      ELSE Thrown(UnrecognizedError(<<"not b">>))
    [] f = "never" -> Thrown(UnreachableError)

\* The predicates handed to Parser.filter, by name.
\*   isB      (m) => m is the match "b"           returns false otherwise
\*   bOrThrow (m) => true for "b", throws UnrecognizedError otherwise
\*            (the shape of wordFrom / specificWord in the filter revision)
Predicates == {"isB", "bOrThrow"}

Test(f, v) ==
  CASE f = "isB" -> Answered(v = MatchArray(<<"b">>))
    [] f = "bOrThrow" -> IF v = MatchArray(<<"b">>) THEN Answered(TRUE)
                         ELSE Refused(UnrecognizedError(<<"not b">>))

\* -------------------------------------------------------------- combinators

\* src.match(new RegExp("^" + regex.source)) for a regex that is one literal
\* character: the matched text, or <<>> for null.
regexMatch(regex, src) ==
  IF src # <<>> /\ src[1] = regex THEN <<regex>> ELSE <<>>

\* src.match(/(.*)(?:\s|$)/)?.[1]: "." stops at a line terminator, so the
\* token is the text before the first line terminator.
RECURSIVE token(_)
token(src) ==
  IF src = <<>> \/ src[1] = "\n" THEN <<>> ELSE <<src[1]>> \o token(Tail(src))

match(regex, src) ==
  IF regexMatch(regex, src) # <<>>
  THEN OutputOf(<<[value |-> MatchArray(regexMatch(regex, src)),
                   rest |-> SubSeq(src, Len(regexMatch(regex, src)) + 1, Len(src))]>>)
  ELSE IF src = <<>> THEN OutputError(UnreachableError)
  ELSE IF token(src) # <<>> THEN OutputError(UnrecognizedError(token(src)))
  ELSE OutputError(UnreachableError)

nothing(src) == OutputOf(<<[value |-> Null, rest |-> src]>>)

eol(src) ==
  IF src = <<>> THEN OutputOf(<<[value |-> Null, rest |-> <<>>]>>)
  ELSE OutputError(UnrecognizedError(src))

\* mutant: each alternative overwrites the result instead of adding to it
choice_lastWins(choices, src) ==
  IF choices = <<>> THEN OutputNone ELSE Run(choices[Len(choices)], src)

choice(choices, src) ==
  flatMap(OutputOf(choices), [i \in 1..Len(choices) |-> Run(choices[i], src)])

RECURSIVE choiceOnlyOneReduce(_, _, _)
choiceOnlyOneReduce(choices, output, src) ==
  IF choices = <<>> THEN output
  ELSE choiceOnlyOneReduce(Tail(choices),
         IF isError(output) THEN Run(Head(choices), src) ELSE output, src)

\* mutant: the alternatives are summed as choice does
choiceOnlyOne_sum(choices, src) ==
  flatMap(OutputOf(choices), [i \in 1..Len(choices) |-> Run(choices[i], src)])

\* mutant: when every alternative fails the first failure is kept
choiceOnlyOne_firstFailure(choices, src) ==
  IF choices # <<>> /\ isError(choiceOnlyOneReduce(choices, OutputNone, src))
  THEN Run(choices[1], src)
  ELSE choiceOnlyOneReduce(choices, OutputNone, src)

choiceOnlyOne(choices, src) == choiceOnlyOneReduce(choices, OutputNone, src)

\* mutant: the skip branch is taken only when the parser fails
optional_fallback(parser, src) == choiceOnlyOne(<<parser, Nothing>>, src)

optional(parser, src) == choice(<<parser, Nothing>>, src)

\* mutant: the remaining input of a member is not handed to the next one
RECURSIVE sequenceReduce_keepRest(_, _)
sequenceReduce_keepRest(sequence, output) ==
  IF sequence = <<>> THEN output
  ELSE sequenceReduce_keepRest(Tail(sequence),
         flatMap(output, [i \in 1..Len(output.output) |->
           LET vr == output.output[i]
               next == Run(Head(sequence), vr.rest)
           IN  Output_map(next, [j \in 1..Len(next.output) |->
                 Returned([value |-> List(vr.value.l \o <<next.output[j].value>>),
                           rest |-> vr.rest])])]))

RECURSIVE sequenceReduce(_, _)
sequenceReduce(sequence, output) ==
  IF sequence = <<>> THEN output
  ELSE sequenceReduce(Tail(sequence),
         flatMap(output, [i \in 1..Len(output.output) |->
           LET vr == output.output[i]
               next == Run(Head(sequence), vr.rest)
           IN  Output_map(next, [j \in 1..Len(next.output) |->
                 Returned([value |-> List(vr.value.l \o <<next.output[j].value>>),
                           rest |-> next.output[j].rest])])]))

sequence(parsers, src) ==
  sequenceReduce(parsers, OutputOf(<<[value |-> List(<<>>), rest |-> src]>>))

\* mutant: many commits to the longest run as all does
many_exhaustive(parser, src) ==
  choiceOnlyOne(<<Map(Sequence(<<parser, Many(parser)>>), "cons"),
                  Map(Nothing, "empty")>>, src)

many(parser, src) ==
  choice(<<Map(Sequence(<<parser, Many(parser)>>), "cons"),
           Map(Nothing, "empty")>>, src)

\* mutant: all keeps every prefix as many does
all_lenient(parser, src) ==
  choice(<<Map(Sequence(<<parser, All(parser)>>), "cons"),
           Map(Nothing, "empty")>>, src)

all(parser, src) ==
  choiceOnlyOne(<<Map(Sequence(<<parser, All(parser)>>), "cons"),
                  Map(Nothing, "empty")>>, src)

\* mutant: the remaining input of the inner parser is returned
lookAhead_consuming(parser, src) == Run(parser, src)

\* mutant: what is left is what the inner parser took
lookAhead_taken(parser, src) ==
  LET o == Run(parser, src) IN
  Output_map(o, [i \in 1..Len(o.output) |->
    Returned([value |-> o.output[i].value,
              rest |-> SubSeq(src, 1, Len(src) - Len(o.output[i].rest))])])

lookAhead(parser, src) ==
  LET o == Run(parser, src) IN
  Output_map(o, [i \in 1..Len(o.output) |->
    Returned([value |-> o.output[i].value, rest |-> src])])

\* Parser.map of src/src/parser.ts: Output.map catches what the mapper throws
Parser_map(parser, mapper, src) ==
  LET o == Run(parser, src) IN
  Output_map(o, [i \in 1..Len(o.output) |->
    LET vr == o.output[i] IN
    IF Apply(mapper, vr.value).ok
    THEN Returned([value |-> Apply(mapper, vr.value).v, rest |-> vr.rest])
    ELSE Thrown(Apply(mapper, vr.value).err)])

\* mutant: one throwing mapper call fails the whole result
Parser_mapCatch_abort(parser, mapper, src) ==
  IF \E i \in 1..Len(Run(parser, src).output) :
       ~Apply(mapper, Run(parser, src).output[i].value).ok
  THEN OutputError(UnrecognizedError(<<"mapper">>))
  ELSE Output_map(Run(parser, src), [i \in 1..Len(Run(parser, src).output) |->
         Returned([value |-> Apply(mapper, Run(parser, src).output[i].value).v,
                   rest |-> Run(parser, src).output[i].rest])])

\* Parser.map of the earlier revision: flatMap with try / catch
Parser_mapCatch(parser, mapper, src) ==
  LET o == Run(parser, src) IN
  flatMap(o, [i \in 1..Len(o.output) |->
    LET vr == o.output[i] IN
    IF Apply(mapper, vr.value).ok
    THEN OutputOf(<<[value |-> Apply(mapper, vr.value).v, rest |-> vr.rest]>>)
    ELSE OutputError(Apply(mapper, vr.value).err)])

\* mutant: the first rejected candidate ends the result, dropping the
\* accepted candidates after it
Parser_filter_stopAtReject(parser, mapper, src) ==
  LET o == Run(parser, src)
      firstBad == CHOOSE n \in 1..(Len(o.output) + 1) :
                    /\ \A i \in 1..(n - 1) : Test(mapper, o.output[i].value).ok
                                              /\ Test(mapper, o.output[i].value).keep
                    /\ n <= Len(o.output) =>
                         ~(Test(mapper, o.output[n].value).ok
                           /\ Test(mapper, o.output[n].value).keep)
  IN  IF isError(o) THEN o
      ELSE IF firstBad = 1 THEN OutputError(CoveredError)
      ELSE OutputOf(SubSeq(o.output, 1, firstBad - 1))

Parser_filter(parser, mapper, src) ==
  LET o == Run(parser, src) IN
  Output_filter(o, [i \in 1..Len(o.output) |-> Test(mapper, o.output[i].value)])

\* ------------------------------------------------------------------ lexer
\* Characters are UTF-16 code units, each named by a string.  A letter names
\* itself; the quotation marks are "dq" ("), "ldq" / "rdq" (curly double),
\* "lg" / "rg" (guillemets) and "lc" / "rc" (corner brackets).  A UCSUR glyph
\* is two code units wide: the high surrogate "hs", then a unit naming the
\* glyph.
Vowels == {"a", "e", "i", "o", "u"}
Consonants == {"j", "k", "l", "m", "n", "p", "s", "t", "w"}
LowerCase == Vowels \cup Consonants \cup {"b"}
UpperCase == {"A", "K", "M", "T"}
Spaces == {" ", "\n"}
OpenMarks == {"dq", "ldq", "lg", "lc"}
CloseMarks == {"dq", "rdq", "rg", "rc"}

Glyph(name) == <<"hs", name>>
START_OF_CARTOUCHE == Glyph("cartoucheStart")
END_OF_CARTOUCHE == Glyph("cartoucheEnd")
COMBINING_CARTOUCHE_EXTENSION == Glyph("cartoucheExtension")
MiddleDot == Glyph("dot")
Colon == Glyph("colon")

\* The glyph -> syllable string table
UCSUR_TO_LATIN ==
  [g \in {"X", "Y", "T", "A"} |->
     CASE g = "X" -> <<"t", "o">>
       [] g = "Y" -> <<"k", "i">>
       [] g = "T" -> <<"t", "o", "k", "i">>
       [] g = "A" -> <<"a", "l", "e">>]

Num(n) == [t |-> "num", s |-> <<ToString(n)>>, l |-> <<>>]

UnexpectedError(unexpected, expected) ==
  [kind |-> "Unexpected",
   msg |-> <<"Unexpected ">> \o unexpected \o <<". ">> \o expected
             \o <<" were expected instead.">>]

\* `"${token}"`
Quoted(s) == <<"\"">> \o s \o <<"\"">>

\* the longest prefix of s made of characters of set
TakeWhile(set, s) ==
  SubSeq(s, 1, CHOOSE n \in 0..Len(s) :
                 /\ \A i \in 1..n : s[i] \in set
                 /\ n < Len(s) => s[n + 1] \notin set)

Drop(s, n) == SubSeq(s, n + 1, Len(s))

NoMatch == [found |-> FALSE, whole |-> <<>>, group |-> <<>>]

\* ^(first more*)\s* : one character of `first`, characters of `more`, spaces
Classed(first, more, s) ==
  IF s # <<>> /\ s[1] \in first
  THEN LET g == <<s[1]>> \o TakeWhile(more, Tail(s)) IN
       [found |-> TRUE,
        whole |-> g \o TakeWhile(Spaces, Drop(s, Len(g))),
        group |-> g]
  ELSE NoMatch

\* src.match(new RegExp("^" + regex.source)) for the regular expressions of
\* the lexer, by name: the whole match and its first group.
RegexExec(regex, s) ==
  CASE regex = "spaces" ->
         [found |-> TRUE, whole |-> TakeWhile(Spaces, s), group |-> <<>>]
    [] regex = "space+" ->
         IF s # <<>> /\ s[1] \in Spaces
         THEN [found |-> TRUE, whole |-> TakeWhile(Spaces, s), group |-> <<>>]
         ELSE NoMatch
    [] regex = "latinWord" -> Classed(LowerCase, LowerCase \cup UpperCase, s)
    [] regex = "properWord" -> Classed(UpperCase, LowerCase \cup UpperCase, s)
    [] regex = "latinLetter" -> Classed(LowerCase \cup UpperCase, {}, s)
    [] regex = "openQuotationMark" -> Classed(OpenMarks, {}, s)
    [] regex = "closeQuotationMark" -> Classed(CloseMarks, {}, s)
    [] regex = "comma" ->
         IF s # <<>> /\ s[1] = ","
         THEN [found |-> TRUE,
               whole |-> <<",">> \o TakeWhile(Spaces, Tail(s)), group |-> <<>>]
         ELSE NoMatch
    [] regex = "punctuation" ->
         IF Len(s) >= 2 /\ SubSeq(s, 1, 2) \in {MiddleDot, Colon}
         THEN [found |-> TRUE,
               whole |-> SubSeq(s, 1, 2) \o TakeWhile(Spaces, Drop(s, 2)),
               group |-> SubSeq(s, 1, 2)]
         ELSE Classed({".", ",", ":", ";", "?", "!"}, {}, s)

\* the RegExpMatchArray [whole, group]
MatchGroups(m) == List(<<Str(m.whole), Str(m.group)>>)

\* a value handed to the code that goes on with it: o.then(Body), o.map(Body)
Given(value, Body(_)) == Body(value)

\* match(regex, description) of the lexer
lex_match(regex, description, src) ==
  Given(RegexExec(regex, src), LAMBDA m :
    IF m.found
    THEN OutputOf(<<[value |-> MatchGroups(m),
                     rest |-> Drop(src, Len(m.whole))]>>)
    ELSE IF src = <<>>
    THEN OutputError(UnexpectedError(<<"end of sentence">>, <<description>>))
    ELSE OutputError(UnexpectedError(
           Quoted(TakeWhile({src[i] : i \in 1..Len(src)} \ Spaces, src)),
           <<description>>)))

slice(length, description, src) ==
  IF Len(src) < length THEN OutputError(UnexpectedError(src, <<description>>))
  ELSE OutputOf(<<[value |-> Str(SubSeq(src, 1, length)), rest |-> Drop(src, length)]>>)

lex_eol(src) ==
  IF src = <<>> THEN OutputOf(<<[value |-> Null, rest |-> <<>>]>>)
  ELSE OutputError(UnexpectedError(Quoted(src), <<"end of sentence">>))

\* word.match(MORAE): the morae of a syllable string, left to right
RECURSIVE Morae(_)
Morae(w) ==
  IF w = <<>> THEN <<>>
  ELSE IF w[1] \in Vowels THEN <<SubSeq(w, 1, 1)>> \o Morae(Tail(w))
  ELSE IF w[1] \in Consonants /\ Len(w) >= 2 /\ w[2] \in Vowels
       THEN <<SubSeq(w, 1, 2)>> \o Morae(Drop(w, 2))
  ELSE IF w[1] = "n" THEN <<SubSeq(w, 1, 1)>> \o Morae(Tail(w))
  ELSE Morae(Tail(w))

RECURSIVE Join(_, _)
Join(strs, sep) ==
  IF strs = <<>> THEN <<>>
  ELSE IF Len(strs) = 1 THEN strs[1]
  ELSE strs[1] \o sep \o Join(Tail(strs), sep)

Strings(values) == [i \in 1..Len(values) |-> values[i].s]

\* Every parser of the lexer is built from match, slice, choiceOnlyOne,
\* sequence, all, map, filter and then, so its Output holds at most one
\* success: Ok(value, rest), read back with valueOf and restOf.
Ok(value, rest) == OutputOf(<<[value |-> value, rest |-> rest]>>)
valueOf(o) == o.output[1].value
restOf(o) == o.output[1].rest

\* choiceOnlyOne over the Outputs of its alternatives on one input: the first
\* success, or the failure of the last alternative
RECURSIVE choiceOnlyOneOf(_)
choiceOnlyOneOf(outs) ==
  IF Len(outs) = 1 \/ ~isError(Head(outs)) THEN Head(outs)
  ELSE choiceOnlyOneOf(Tail(outs))

lex_spaces(src) ==
  Given(lex_match("spaces", "space", src), LAMBDA m :
    Ok(valueOf(m).l[1], restOf(m)))

latinWord(src) ==
  Given(lex_match("latinWord", "word", src), LAMBDA m :
    IF isError(m) THEN m
    ELSE IF \E i \in 1..Len(valueOf(m).l[2].s) : valueOf(m).l[2].s[i] \in UpperCase
    THEN OutputError(UnrecognizedError(Quoted(valueOf(m).l[2].s)))
    ELSE Ok(valueOf(m).l[2], restOf(m)))

ucsur(src) ==
  Given(slice(2, "UCSUR character", src), LAMBDA c :
    IF isError(c) THEN c
    ELSE Ok(valueOf(c), restOf(lex_spaces(restOf(c)))))

specificUcsurCharacter(character, description, src) ==
  Given(ucsur(src), LAMBDA c :
    IF isError(c) THEN c
    ELSE IF valueOf(c).s = character THEN c
    ELSE OutputError(UnexpectedError(Quoted(valueOf(c).s), <<description>>)))

ucsurWord(src) ==
  Given(ucsur(src), LAMBDA c :
    IF isError(c) THEN c
    ELSE IF valueOf(c).s[1] = "hs" /\ valueOf(c).s[2] \in DOMAIN UCSUR_TO_LATIN
    THEN Ok(Str(UCSUR_TO_LATIN[valueOf(c).s[2]]), restOf(c))
    ELSE OutputError(CoveredError))

lex_word(src) ==
  Given(ucsurWord(src), LAMBDA u :
    IF u.output # <<>> THEN u ELSE latinWord(src))

properWord(src) ==
  Given(lex_match("properWord", "proper word", src), LAMBDA m :
    IF isError(m) THEN m ELSE Ok(valueOf(m).l[2], restOf(m)))

\* all(parser) is choiceOnlyOne(sequence(parser, all(parser)).map(cons),
\* nothing.map(empty)): the values of the longest run of successes, here
\* collected from left to right in `values`
RECURSIVE allProperWord(_, _)
allProperWord(src, values) ==
  Given(properWord(src), LAMBDA o :
    IF isError(o) THEN Ok(List(values), src)
    ELSE allProperWord(restOf(o), Append(values, valueOf(o))))

\* allAtLeastOnce(parser) is sequence(parser, all(parser)).map(cons)
lex_properWords(src) ==
  Given(allProperWord(src, <<>>), LAMBDA words :
    IF valueOf(words).l = <<>> THEN properWord(src)
    ELSE Ok(Str(Join(Strings(valueOf(words).l), <<" ">>)), restOf(words)))

lex_specificWord(thatWord, src) ==
  Given(lex_word(src), LAMBDA w :
    IF isError(w) THEN w
    ELSE IF valueOf(w).s = thatWord THEN w
    ELSE OutputError(UnexpectedError(Quoted(valueOf(w).s), Quoted(thatWord))))

RECURSIVE allSpecificWord(_, _, _)
allSpecificWord(thatWord, src, values) ==
  Given(lex_specificWord(thatWord, src), LAMBDA o :
    IF isError(o) THEN Ok(List(values), src)
    ELSE allSpecificWord(thatWord, restOf(o), Append(values, valueOf(o))))

\* mutant: one "a" is already a run
multipleA_single(src) ==
  Given(lex_specificWord(<<"a">>, src), LAMBDA a :
    IF isError(a) THEN a
    ELSE Given(allSpecificWord(<<"a">>, restOf(a), <<>>), LAMBDA as :
           Ok(Num(Len(<<valueOf(a)>> \o valueOf(as).l)), restOf(as))))

multipleA(src) ==
  Given(lex_specificWord(<<"a">>, src), LAMBDA a :
    IF isError(a) THEN a
    ELSE Given(allSpecificWord(<<"a">>, restOf(a), <<>>), LAMBDA as :
           IF valueOf(as).l = <<>>
           THEN lex_specificWord(<<"a">>, restOf(a))
           ELSE Ok(Num(Len(<<valueOf(a)>> \o valueOf(as).l)), restOf(as))))

\* mutant: the word after "ala" may be any word
xAlaX_any(src) ==
  Given(lex_word(src), LAMBDA word :
    IF isError(word) THEN word
    ELSE Given(lex_specificWord(<<"a", "l", "a">>, restOf(word)), LAMBDA ala :
           IF isError(ala) THEN ala
           ELSE Given(lex_word(restOf(ala)), LAMBDA again :
                  IF isError(again) THEN again
                  ELSE Ok(valueOf(word), restOf(again)))))

xAlaX(src) ==
  Given(lex_word(src), LAMBDA word :
    IF isError(word) THEN word
    ELSE Given(lex_specificWord(<<"a", "l", "a">>, restOf(word)), LAMBDA ala :
           IF isError(ala) THEN ala
           ELSE Given(lex_specificWord(valueOf(word).s, restOf(ala)), LAMBDA again :
                  IF isError(again) THEN again
                  ELSE Ok(valueOf(word), restOf(again)))))

lex_openQuotationMark(src) ==
  Given(lex_match("openQuotationMark", "open quotation mark", src), LAMBDA m :
    IF isError(m) THEN m ELSE Ok(valueOf(m).l[2], restOf(m)))

lex_closeQuotationMark(src) ==
  Given(lex_match("closeQuotationMark", "close quotation mark", src), LAMBDA m :
    IF isError(m) THEN m ELSE Ok(valueOf(m).l[2], restOf(m)))

RECURSIVE cartoucheSpace(_)
cartoucheSpace(src) ==
  Given(choiceOnlyOneOf(<<
          lex_match("space+", "space", src),
          specificUcsurCharacter(COMBINING_CARTOUCHE_EXTENSION,
                                 "combining cartouche extension", src)>>),
        LAMBDA o :
    IF isError(o) THEN Ok(Null, src) ELSE cartoucheSpace(restOf(o)))

\* ucsurWord().skip(cartoucheSpace())
ucsurWordSpace(src) ==
  Given(ucsurWord(src), LAMBDA w :
    IF isError(w) THEN w
    ELSE Ok(valueOf(w), restOf(cartoucheSpace(restOf(w)))))

\* specificUcsurCharacter(mark, "colon").skip(cartoucheSpace())
markSpace(mark, src) ==
  Given(specificUcsurCharacter(mark, "colon", src), LAMBDA d :
    IF isError(d) THEN d
    ELSE Ok(valueOf(d), restOf(cartoucheSpace(restOf(d)))))

\* all(specificUcsurCharacter(dot).skip(cartoucheSpace())): the dots found
RECURSIVE allDots(_, _)
allDots(src, length) ==
  Given(markSpace(MiddleDot, src), LAMBDA d :
    IF isError(d) THEN Ok(Num(length), src)
    ELSE allDots(restOf(d), length + 1))

\* the second alternative of cartoucheElement: a glyph and its dots
dottedGlyph(src) ==
  Given(ucsurWordSpace(src), LAMBDA word :
    IF isError(word) THEN word
    ELSE Given(allDots(restOf(word), 0), LAMBDA dots :
           IF valueOf(dots) = Num(0) THEN markSpace(MiddleDot, restOf(word))
           ELSE LET k == CHOOSE n \in 1..Len(src) : Num(n) = valueOf(dots)
                    count == IF valueOf(word).s[1] \in Vowels THEN k + 1 ELSE k
                    morae == Morae(valueOf(word).s)
                IN  IF Len(morae) < count
                    THEN OutputError(UnrecognizedError(<<"Excess dots">>))
                    ELSE Ok(Str(Join(SubSeq(morae, 1, count), <<>>)),
                            restOf(dots))))

\* the first alternative of cartoucheElement: a glyph and a colon
colonGlyph(src) ==
  Given(ucsurWordSpace(src), LAMBDA word :
    IF isError(word) THEN word
    ELSE Given(markSpace(Colon, restOf(word)), LAMBDA colon :
           IF isError(colon) THEN colon ELSE Ok(valueOf(word), restOf(colon))))

\* mutant: a glyph alone stands for its whole syllable string
bareGlyph_whole(src) == ucsurWordSpace(src)

\* the third alternative of cartoucheElement: a glyph alone
bareGlyph(src) ==
  Given(ucsurWordSpace(src), LAMBDA word :
    IF isError(word) THEN word
    ELSE Ok(Str(SubSeq(valueOf(word).s, 1, 1)), restOf(word)))

\* the fourth alternative of cartoucheElement: a Latin letter
latinLetter(src) ==
  Given(lex_match("latinLetter", "Latin letter", src), LAMBDA m :
    IF isError(m) THEN m
    ELSE Ok(valueOf(m).l[2], restOf(cartoucheSpace(restOf(m)))))

cartoucheElement(src) ==
  choiceOnlyOneOf(<<colonGlyph(src), dottedGlyph(src), bareGlyph(src),
                    latinLetter(src)>>)

RECURSIVE allCartoucheElement(_, _)
allCartoucheElement(src, values) ==
  Given(cartoucheElement(src), LAMBDA o :
    IF isError(o) THEN Ok(List(values), src)
    ELSE allCartoucheElement(restOf(o), Append(values, valueOf(o))))

toUpperCase(c) ==
  CASE c = "a" -> "A" [] c = "k" -> "K" [] c = "m" -> "M" [] c = "t" -> "T"
    [] OTHER -> c

cartouche(src) ==
  Given(specificUcsurCharacter(START_OF_CARTOUCHE, "start of cartouche", src),
        LAMBDA start :
    IF isError(start) THEN start
    ELSE Given(allCartoucheElement(restOf(cartoucheSpace(restOf(start))), <<>>),
               LAMBDA words :
           IF valueOf(words).l = <<>> THEN cartoucheElement(restOf(words))
           ELSE Given(specificUcsurCharacter(END_OF_CARTOUCHE, "end of cartouche",
                                             restOf(words)),
                      LAMBDA end :
                  IF isError(end) THEN end
                  ELSE LET word == Join(Strings(valueOf(words).l), <<>>) IN
                       Ok(Str(<<toUpperCase(word[1])>> \o Tail(word)),
                          restOf(end)))))

RECURSIVE allCartouche(_, _)
allCartouche(src, values) ==
  Given(cartouche(src), LAMBDA o :
    IF isError(o) THEN Ok(List(values), src)
    ELSE allCartouche(restOf(o), Append(values, valueOf(o))))

cartouches(src) ==
  Given(allCartouche(src, <<>>), LAMBDA words :
    IF valueOf(words).l = <<>> THEN cartouche(src)
    ELSE Ok(Str(Join(Strings(valueOf(words).l), <<" ">>)), restOf(words)))

lex_comma(src) ==
  Given(lex_match("comma", "comma", src), LAMBDA m :
    IF isError(m) THEN m ELSE Ok(Str(<<",">>), restOf(m)))

lex_punctuation(src) ==
  Given(lex_match("punctuation", "punctuation", src), LAMBDA m :
    IF isError(m) THEN m ELSE Ok(valueOf(m).l[2], restOf(m)))

\* token trees: [t |-> type, s |-> punctuation / words / count / word /
\* <<leftMark, rightMark>>, l |-> the token trees of a quotation]
Token(type, o) == Ok([t |-> type, s |-> valueOf(o).s, l |-> <<>>], restOf(o))

RECURSIVE allTokenTree(_, _, _, _)
tokenTrees(src, includeQuotation, xAlaXPartialParsing) ==
  allTokenTree(src, includeQuotation, xAlaXPartialParsing, <<>>)

lex_quotation(src, xAlaXPartialParsing) ==
  Given(lex_openQuotationMark(src), LAMBDA open :
    IF isError(open) THEN open
    ELSE Given(tokenTrees(restOf(open), FALSE, xAlaXPartialParsing), LAMBDA trees :
           Given(lex_closeQuotationMark(restOf(trees)), LAMBDA close :
             IF isError(close) THEN close
             ELSE LET leftMark == valueOf(open).s[1]
                      rightMark == valueOf(close).s[1]
                      mismatched ==
                        OutputError(UnrecognizedError(
                          <<"Mismatched quotation marks">>))
                      matched ==
                        Ok([t |-> "quotation", s |-> <<leftMark, rightMark>>,
                            l |-> valueOf(trees).l], restOf(close))
                  IN  IF leftMark \in {"dq", "ldq"}
                      THEN IF rightMark \notin {"dq", "rdq"}
                           THEN mismatched ELSE matched
                      ELSE IF leftMark = "lg"
                      THEN IF rightMark # "rg" THEN mismatched ELSE matched
                      ELSE IF leftMark = "lc"
                      THEN IF rightMark # "rc" THEN mismatched ELSE matched
                      ELSE OutputError(UnreachableError))))

\* choiceOnlyOne of the seven alternatives, in the order of the source: the
\* first that succeeds, or the failure of the last
tokenTree(src, includeQuotation, xAlaXPartialParsing) ==
  LET orElse(type, o, others) == IF o.output # <<>> THEN Token(type, o) ELSE others
      quoted(o, others) == IF o.output # <<>> THEN o ELSE others
      last(type, o) == IF o.output # <<>> THEN Token(type, o) ELSE o
      either(o, other) == IF o.output # <<>> THEN o ELSE other
  IN  orElse("punctuation", lex_punctuation(src),
      orElse("comma", lex_comma(src),
      quoted(IF includeQuotation THEN lex_quotation(src, xAlaXPartialParsing)
             ELSE OutputError(CoveredError),
      orElse("proper word", either(cartouches(src), lex_properWords(src)),
      orElse("multiple a", multipleA(src),
      orElse("x ala x", IF ~xAlaXPartialParsing THEN xAlaX(src)
                        ELSE OutputError(CoveredError),
      last("word", lex_word(src))))))))

allTokenTree(src, includeQuotation, xAlaXPartialParsing, values) ==
  Given(tokenTree(src, includeQuotation, xAlaXPartialParsing), LAMBDA o :
    IF isError(o) THEN Ok(List(values), src)
    ELSE allTokenTree(restOf(o), includeQuotation, xAlaXPartialParsing,
                      Append(values, valueOf(o))))

\* lex(src) under the setting xAlaXPartialParsing: the token trees, or the
\* failure
lex(src, xAlaXPartialParsing) ==
  Given(tokenTrees(restOf(lex_spaces(src)), TRUE, xAlaXPartialParsing), LAMBDA trees :
    Given(lex_eol(restOf(trees)), LAMBDA end :
      IF isError(end) THEN end ELSE OutputOf(<<valueOf(trees)>>)))

Run(p, src) ==
  CASE p.op = "match" -> match(p.arg, src)
    [] p.op = "nothing" -> nothing(src)
    [] p.op = "eol" -> eol(src)
    [] p.op = "choice" -> choice(p.subs, src)
    [] p.op = "choiceOnlyOne" -> choiceOnlyOne(p.subs, src)
    [] p.op = "optional" -> optional(p.subs[1], src)
    [] p.op = "sequence" -> sequence(p.subs, src)
    [] p.op = "many" -> many(p.subs[1], src)
    [] p.op = "all" -> all(p.subs[1], src)
    [] p.op = "lookAhead" -> lookAhead(p.subs[1], src)
    [] p.op = "map" -> Parser_map(p.subs[1], p.arg, src)
    [] p.op = "mapCatch" -> Parser_mapCatch(p.subs[1], p.arg, src)
    [] p.op = "filter" -> Parser_filter(p.subs[1], p.arg, src)

\* ------------------------------------------------------------ state machine
\* One combinator is built from argument parsers and applied to one source
\* string: pc names the combinator, args its parsers, fn its mapper or
\* predicate, result the Output it returned.
VARIABLES pc, src, args, fn, result, settings

vars == <<pc, src, args, fn, result, settings>>

\* Argument parsers: unambiguous, failing, non-consuming and ambiguous ones.
Subs ==
  { Match("a"), Match("b"), Nothing, Eol,
    Optional(Match("a")), Map(Match("a"), "never") }

\* Lists of alternatives / sequence members of length 0..MaxAlts
AltLists == UNION {[1..n -> Subs] : n \in 0..MaxAlts}

\* Parsers that consume a character on every success, as every parser
\* repeated by many / all in the grammar does.
Repeatable ==
  { Match("a"), Match("b"),
    Choice(<<Match("a"), Match("b")>>),
    Choice(<<Match("a"), Match("a")>>) }

\* Parsers whose successes are mapped and filtered
Mapped ==
  Subs \cup { Choice(<<Nothing, Match("b")>>),
              Choice(<<Match("b"), Nothing, Match("b")>>),
              Sequence(<<Optional(Match("b"))>>) }

Init ==
  /\ pc = "init"
  /\ src \in Inputs
  /\ args = <<>>
  /\ fn = ""
  /\ result = OutputNone
  /\ settings = [xAlaXPartialParsing |-> FALSE]

DoChoice ==
  /\ pc = "init"
  /\ \E cs \in AltLists :
       /\ pc' = "choice"
       /\ args' = cs
       /\ fn' = ""
       /\ result' = choice(cs, src)
  /\ UNCHANGED <<src, settings>>

DoChoiceOnlyOne ==
  /\ pc = "init"
  /\ \E cs \in AltLists :
       /\ pc' = "choiceOnlyOne"
       /\ args' = cs
       /\ fn' = ""
       /\ result' = choiceOnlyOne(cs, src)
  /\ UNCHANGED <<src, settings>>

DoSequence ==
  /\ pc = "init"
  /\ \E ps \in AltLists :
       /\ pc' = "sequence"
       /\ args' = ps
       /\ fn' = ""
       /\ result' = sequence(ps, src)
  /\ UNCHANGED <<src, settings>>

DoOptional ==
  /\ pc = "init"
  /\ \E p \in Subs :
       /\ pc' = "optional"
       /\ args' = <<p>>
       /\ fn' = ""
       /\ result' = optional(p, src)
  /\ UNCHANGED <<src, settings>>

DoLookAhead ==
  /\ pc = "init"
  /\ \E p \in Subs :
       /\ pc' = "lookAhead"
       /\ args' = <<p>>
       /\ fn' = ""
       /\ result' = lookAhead(p, src)
  /\ UNCHANGED <<src, settings>>

DoMany ==
  /\ pc = "init"
  /\ \E p \in Repeatable :
       /\ pc' = "many"
       /\ args' = <<p>>
       /\ fn' = ""
       /\ result' = many(p, src)
  /\ UNCHANGED <<src, settings>>

DoAll ==
  /\ pc = "init"
  /\ \E p \in Repeatable :
       /\ pc' = "all"
       /\ args' = <<p>>
       /\ fn' = ""
       /\ result' = all(p, src)
  /\ UNCHANGED <<src, settings>>

DoMap ==
  /\ pc = "init"
  /\ \E p \in Mapped, f \in Mappers :
       /\ pc' = "map"
       /\ args' = <<p>>
       /\ fn' = f
       /\ result' = Parser_map(p, f, src)
  /\ UNCHANGED <<src, settings>>

DoMapCatch ==
  /\ pc = "init"
  /\ \E p \in Mapped, f \in Mappers :
       /\ pc' = "mapCatch"
       /\ args' = <<p>>
       /\ fn' = f
       /\ result' = Parser_mapCatch(p, f, src)
  /\ UNCHANGED <<src, settings>>

DoFilter ==
  /\ pc = "init"
  /\ \E p \in Mapped, f \in Predicates :
       /\ pc' = "filter"
       /\ args' = <<p>>
       /\ fn' = f
       /\ result' = Parser_filter(p, f, src)
  /\ UNCHANGED <<src, settings>>

Next ==
  \/ DoChoice
  \/ DoChoiceOnlyOne
  \/ DoSequence
  \/ DoOptional
  \/ DoLookAhead
  \/ DoMany
  \/ DoAll
  \/ DoMap
  \/ DoMapCatch
  \/ DoFilter

Spec == Init /\ [][Next]_vars

\* ------------------------------------------------------------------ claims
Failed(p, s) == isError(Run(p, s))

\* Success with at least one element, or failure with at least one error
\* that has a kind and a message.
WellFormed(o) ==
  \/ o.output # <<>> /\ o.errors = <<>>
  \/ /\ o.output = <<>>
     /\ o.errors # <<>>
     /\ \A i \in 1..Len(o.errors) :
          o.errors[i].kind \in ErrorKinds /\ o.errors[i].msg # <<>>

\* C1: every Output returned by a combinator, for any list of alternatives
\* including the empty one, is a non-empty success or a failure with an error.
C1_OutputNeverEmpty == pc # "init" => WellFormed(result)

AllFail(ps, s) == \A i \in 1..Len(ps) : Failed(ps[i], s)

RECURSIVE ConcatSuccesses(_, _)
ConcatSuccesses(ps, s) ==
  IF ps = <<>> THEN <<>>
  ELSE Run(Head(ps), s).output \o ConcatSuccesses(Tail(ps), s)

\* C2: choice returns the successes of all alternatives on the same input,
\* concatenated in alternative order; failures are not surfaced when some
\* alternative succeeds; it fails only when every alternative fails.
C2_ChoiceUnion ==
  pc = "choice" =>
    /\ result.output = ConcatSuccesses(args, src)
    /\ (~AllFail(args, src) => result.errors = <<>>)
    /\ (isError(result) <=> AllFail(args, src))

\* a failing alternative between / before two succeeding ones
C2_Witness ==
  /\ pc = "choice"
  /\ Len(args) = 3
  /\ Failed(args[1], src) /\ ~Failed(args[2], src) /\ ~Failed(args[3], src)
  /\ Run(args[2], src) # Run(args[3], src)
  /\ Len(result.output) >= 3

FirstOk(ps, s) ==
  CHOOSE i \in 1..Len(ps) :
    ~Failed(ps[i], s) /\ \A j \in 1..(i - 1) : Failed(ps[j], s)

\* C3: choiceOnlyOne returns exactly the result of the first alternative that
\* does not fail; successes of later alternatives are absent.
C3_ChoiceOnlyOneFirst ==
  pc = "choiceOnlyOne" /\ ~AllFail(args, src) =>
    result = Run(args[FirstOk(args, src)], src)

\* [fail, successA, successB] with different successes
C3_Witness ==
  /\ pc = "choiceOnlyOne"
  /\ Len(args) = 3
  /\ Failed(args[1], src) /\ ~Failed(args[2], src) /\ ~Failed(args[3], src)
  /\ Run(args[2], src) # Run(args[3], src)
  /\ result = Run(args[2], src)

\* C4: when every alternative of choiceOnlyOne fails, the result is the
\* failure of the last alternative.
C4_ChoiceOnlyOneLastFailure ==
  pc = "choiceOnlyOne" /\ Len(args) >= 1 /\ AllFail(args, src) =>
    /\ isError(result)
    /\ result = Run(args[Len(args)], src)

\* all fail, and the first failure differs from the last
C4_Witness ==
  /\ pc = "choiceOnlyOne"
  /\ Len(args) >= 2
  /\ AllFail(args, src)
  /\ Run(args[1], src) # Run(args[Len(args)], src)
  /\ result.errors = Run(args[Len(args)], src).errors

RECURSIVE Flatten(_)
Flatten(ss) == IF ss = <<>> THEN <<>> ELSE Head(ss) \o Flatten(Tail(ss))

\* Every combination of one success per member, each member applied to the
\* remaining input of the one before: values (as a tuple) and final rest.
RECURSIVE Combos(_, _)
Combos(ps, s) ==
  IF ps = <<>> THEN << [value |-> <<>>, rest |-> s] >>
  ELSE Flatten([i \in 1..Len(Run(Head(ps), s).output) |->
         LET h == Run(Head(ps), s).output[i]
             t == Combos(Tail(ps), h.rest)
         IN  [j \in 1..Len(t) |->
                [value |-> <<h.value>> \o t[j].value, rest |-> t[j].rest]]])

\* C5: the successes of sequence are exactly all combinations over the
\* successes of its members, each with the remaining input of the last
\* member; if some member fails on every input reached, the sequence fails.
C5_SequenceCombinations ==
  pc = "sequence" =>
    LET c == Combos(args, src) IN
    /\ result.output =
         [i \in 1..Len(c) |-> [value |-> List(c[i].value), rest |-> c[i].rest]]
    /\ (isError(result) <=> c = <<>>)
    /\ \A i \in 1..Len(args) :
         (\A k \in 1..Len(Combos(SubSeq(args, 1, i - 1), src)) :
            Failed(args[i], Combos(SubSeq(args, 1, i - 1), src)[k].rest))
         => isError(result) /\ result.errors # <<>>

\* two ambiguous members: at least three combinations with different rests
C5_Witness ==
  /\ pc = "sequence"
  /\ Len(args) >= 2
  /\ Len(Run(args[1], src).output) >= 2
  /\ Len(result.output) >= 3
  /\ \E i, j \in 1..Len(result.output) : result.output[i].rest # result.output[j].rest

\* the sequence fails although its first member succeeds
C5_WitnessFail ==
  /\ pc = "sequence"
  /\ Len(args) >= 2
  /\ ~Failed(args[1], src)
  /\ isError(result)

\* number of consecutive units c at the start of s
RECURSIVE LeadingCount(_, _)
LeadingCount(c, s) ==
  IF s # <<>> /\ s[1] = c THEN 1 + LeadingCount(c, Tail(s)) ELSE 0

\* the success holding the first k units c of s
Prefix(c, k, s) ==
  [value |-> List([j \in 1..k |-> MatchArray(<<c>>)]),
   rest |-> SubSeq(s, k + 1, Len(s))]

\* C6: for a parser matching exactly N consecutive units, many yields N + 1
\* successes, exactly one per prefix length 0..N.
C6_ManyPrefixes ==
  pc = "many" /\ args[1].op = "match" =>
    LET N == LeadingCount(args[1].arg, src) IN
    /\ result.errors = <<>>
    /\ Len(result.output) = N + 1
    /\ \A k \in 0..N :
         Cardinality({i \in 1..Len(result.output) :
                       result.output[i] = Prefix(args[1].arg, k, src)}) = 1

C6_Witness ==
  /\ pc = "many"
  /\ args[1].op = "match"
  /\ LeadingCount(args[1].arg, src) = 2
  /\ Len(src) = 3
  /\ Len(result.output) = 3

\* C7: for a parser matching exactly N consecutive units, all yields exactly
\* one success, holding all N values and the input after them; for N = 0 it
\* succeeds with the empty list and the input unchanged.
C7_AllExhaustive ==
  pc = "all" /\ args[1].op = "match" =>
    result = OutputOf(<<Prefix(args[1].arg, LeadingCount(args[1].arg, src), src)>>)

C7_Witness ==
  /\ pc = "all"
  /\ args[1].op = "match"
  /\ LeadingCount(args[1].arg, src) = 2
  /\ Len(src) = 3
  /\ Len(result.output) = 1
  /\ Len(result.output[1].value.l) = 2

\* N = 0: nothing is consumed and all still succeeds
C7_WitnessZero ==
  /\ pc = "all"
  /\ args[1].op = "match"
  /\ LeadingCount(args[1].arg, src) = 0
  /\ src # <<>>
  /\ result = OutputOf(<<[value |-> List(<<>>), rest |-> src]>>)

\* C8: optional(p) returns all successes of p followed by one success with
\* value null and the input unchanged, as choice(p, nothing) does; it never
\* fails.
C8_OptionalAddsSkip ==
  pc = "optional" =>
    /\ result = OutputOf(Run(args[1], src).output \o <<[value |-> Null, rest |-> src]>>)
    /\ result = Run(Choice(<<args[1], Nothing>>), src)
    /\ ~isError(result)

\* p succeeds by consuming, and the skip branch is still added after it
C8_Witness ==
  /\ pc = "optional"
  /\ ~Failed(args[1], src)
  /\ Run(args[1], src).output[1].rest # src
  /\ Len(result.output) = Len(Run(args[1], src).output) + 1

\* p fails and optional succeeds with null alone
C8_WitnessFail ==
  /\ pc = "optional"
  /\ Failed(args[1], src)
  /\ result.output = <<[value |-> Null, rest |-> src]>>

\* C9: lookAhead(p) succeeds exactly when p does, with the same values in the
\* same order, every remaining input being the input it was applied to.
C9_LookAheadConsumesNothing ==
  pc = "lookAhead" =>
    LET o == Run(args[1], src) IN
    /\ (isError(result) <=> isError(o))
    /\ (isError(o) => result.errors # <<>>)
    /\ Len(result.output) = Len(o.output)
    /\ \A i \in 1..Len(o.output) :
         /\ result.output[i].value = o.output[i].value
         /\ result.output[i].rest = src

\* p consumes, lookAhead gives the input back
C9_Witness ==
  /\ pc = "lookAhead"
  /\ ~Failed(args[1], src)
  /\ \E i \in 1..Len(Run(args[1], src).output) : Run(args[1], src).output[i].rest # src
  /\ \A i \in 1..Len(result.output) : result.output[i].rest = src

\* the successes whose mapper call returns, mapped, in their original order
MappedSurvivors(o, f) ==
  LET kept == SelectSeq(o.output, LAMBDA vr : Apply(f, vr.value).ok) IN
  [i \in 1..Len(kept) |->
     [value |-> Apply(f, kept[i].value).v, rest |-> kept[i].rest]]

\* C10: Parser.map drops the successes its mapper throws for; if one survives
\* the result holds exactly the surviving mapped values, in order, with
\* unchanged rests and no error; if none survives the result is a failure.
C10_MapDropsThrown ==
  pc \in {"map", "mapCatch"} /\ ~Failed(args[1], src) =>
    LET m == MappedSurvivors(Run(args[1], src), fn) IN
    IF m # <<>> THEN result = OutputOf(m)
    ELSE isError(result) /\ result.errors # <<>>

\* the first success is dropped and a later one survives
C10_Witness ==
  /\ pc = "mapCatch"
  /\ Len(Run(args[1], src).output) >= 2
  /\ ~Apply(fn, Run(args[1], src).output[1].value).ok
  /\ Len(result.output) >= 1
  /\ Len(result.output) < Len(Run(args[1], src).output)
  /\ result.errors = <<>>

\* every success is dropped
C10_WitnessNone ==
  /\ pc = "map"
  /\ ~Failed(args[1], src)
  /\ isError(result)

\* the successes the predicate accepts, unchanged, in their original order
Accepted(o, f) ==
  SelectSeq(o.output, LAMBDA vr : Test(f, vr.value).ok /\ Test(f, vr.value).keep)

\* C11: Parser.filter keeps exactly the successes its rule accepts, in order,
\* each with value and rest unchanged; a rejected candidate removes no
\* accepted sibling; if every candidate is rejected the result is a failure.
C11_FilterKeepsAccepted ==
  pc = "filter" /\ ~Failed(args[1], src) =>
    IF Accepted(Run(args[1], src), fn) # <<>>
    THEN result = OutputOf(Accepted(Run(args[1], src), fn))
    ELSE isError(result) /\ result.errors # <<>>

\* a rejected candidate between two accepted ones
C11_Witness ==
  /\ pc = "filter"
  /\ Len(Run(args[1], src).output) = 3
  /\ Len(result.output) = 2
  /\ result.output[1] = Run(args[1], src).output[1]
  /\ result.output[2] = Run(args[1], src).output[3]

\* every candidate rejected
C11_WitnessNone ==
  /\ pc = "filter"
  /\ ~Failed(args[1], src)
  /\ isError(result)

IsSuffix(rest, text) ==
  /\ Len(rest) <= Len(text)
  /\ rest = SubSeq(text, Len(text) - Len(rest) + 1, Len(text))

\* C26: whatever the combinator and its arguments, what a success leaves is
\* a tail of the text the parser was applied to.
C26_RestIsSuffix ==
  pc # "init" =>
    \A i \in 1..Len(result.output) : IsSuffix(result.output[i].rest, src)

\* a sequence that took two characters out of three
C26_Witness ==
  /\ pc = "sequence"
  /\ \E i \in 1..Len(result.output) :
       /\ result.output[i].rest # <<>>
       /\ Len(result.output[i].rest) = Len(src) - 2

\* many, with successes that leave different tails
C26_WitnessMany ==
  /\ pc = "many"
  /\ \E i, j \in 1..Len(result.output) :
       Len(result.output[i].rest) + 2 = Len(result.output[j].rest)

\* ------------------------------------------------------- the lexical layer
\* Texts are concatenations of at most MaxPieces pieces: words followed by a
\* space, quotation marks and punctuation.
MaxPieces == 4

LexPieces ==
  { <<"a", " ">>, <<"a", "l", "a", " ">>, <<"m", "i", " ">>,
    <<"lg">>, <<"rg">>, <<"dq">>, <<".">>, <<",">> }

LexInputs ==
  UNION {{Join(ps, <<>>) : ps \in [1..n -> LexPieces]} : n \in 0..MaxPieces}

InitLex ==
  /\ pc = "init"
  /\ src \in LexInputs
  /\ args = <<>>
  /\ fn = ""
  /\ result = OutputNone
  /\ settings \in [xAlaXPartialParsing : BOOLEAN]

DoLex ==
  /\ pc = "init"
  /\ pc' = "lex"
  /\ result' = lex(src, settings.xAlaXPartialParsing)
  /\ UNCHANGED <<src, args, fn, settings>>

DoTokenTree ==
  /\ pc = "init"
  /\ pc' = "tokenTree"
  /\ result' = tokenTree(src, TRUE, settings.xAlaXPartialParsing)
  /\ UNCHANGED <<src, args, fn, settings>>

NextLex ==
  \/ DoLex
  \/ DoTokenTree

SpecLex == InitLex /\ [][NextLex]_vars

Kinds(o) == {o.errors[i].kind : i \in 1..Len(o.errors)}

\* a quotation opened with a guillemet and closed with a straight double
\* quote, with no other quotation mark inside
Mismatched(text) ==
  /\ Len(text) >= 2
  /\ text[1] = "lg"
  /\ text[Len(text)] = "dq"
  /\ \A i \in 2..(Len(text) - 1) : text[i] \notin OpenMarks \cup CloseMarks

\* the same text closed with the matching guillemet
Rematched(text) == SubSeq(text, 1, Len(text) - 1) \o <<"rg">>

\* C12: lex never accepts a quotation opened with a guillemet and closed
\* with a straight double quote, the failure it returns for it is of kind
\* Unrecognized, and the same content closed with a guillemet is accepted.
C12_MismatchIsUnrecognized ==
  pc = "lex" /\ Mismatched(src) =>
    /\ isError(result)
    /\ "Unrecognized" \in Kinds(result)
    /\ ~isError(lex(Rematched(src), settings.xAlaXPartialParsing))

\* the words and marks of a text, spaces dropped
RECURSIVE ItemsOf(_, _)
ItemsOf(text, items) ==
  IF text = <<>> THEN items
  ELSE IF text[1] \in Spaces THEN ItemsOf(Tail(text), items)
  ELSE IF text[1] \in LowerCase
  THEN ItemsOf(Drop(text, Len(TakeWhile(LowerCase, text))),
               Append(items, TakeWhile(LowerCase, text)))
  ELSE ItemsOf(Tail(text), Append(items, <<text[1]>>))

\* the lengths of the maximal runs of the word "a", from left to right
RECURSIVE RunsOf(_, _, _)
RunsOf(items, run, runs) ==
  IF items = <<>> THEN IF run > 0 THEN Append(runs, run) ELSE runs
  ELSE IF Head(items) = <<"a">> THEN RunsOf(Tail(items), run + 1, runs)
  ELSE RunsOf(Tail(items), 0, IF run > 0 THEN Append(runs, run) ELSE runs)

ARuns(text) == RunsOf(ItemsOf(text, <<>>), 0, <<>>)

\* the tokens of a result of lex, those inside quotations included
FlatTokens(o) ==
  Join([i \in 1..Len(o.output[1].l) |->
          IF o.output[1].l[i].t = "quotation" THEN o.output[1].l[i].l
          ELSE <<o.output[1].l[i]>>], <<>>)

TokensOfType(o, type) == SelectSeq(FlatTokens(o), LAMBDA tok : tok.t = type)
LoneAs(o) == SelectSeq(TokensOfType(o, "word"), LAMBDA tok : tok.s = <<"a">>)
FoldedAs(o) == SelectSeq(TokensOfType(o, "x ala x"), LAMBDA tok : tok.s = <<"a">>)
LongRuns(text) == SelectSeq(ARuns(text), LAMBDA n : n >= 2)
ShortRuns(text) == SelectSeq(ARuns(text), LAMBDA n : n = 1)

\* every maximal run of two or more "a" is one "multiple a" token holding
\* its length, in order
RunsCounted(o, text) ==
  TokensOfType(o, "multiple a") =
    [i \in 1..Len(LongRuns(text)) |->
       [t |-> "multiple a", s |-> Num(LongRuns(text)[i]).s, l |-> <<>>]]

NeverBelowTwo(o) ==
  \A i \in 1..Len(TokensOfType(o, "multiple a")) :
    TokensOfType(o, "multiple a")[i].s \notin {Num(0).s, Num(1).s}

\* C19 as stated: every maximal run of n >= 2 "a" becomes one "multiple a"
\* token of count n, no such token has a count below 2, and every lone "a"
\* is a plain word token (or one side of a folded "a ala a").
C19_RunsBecomeMultipleA ==
  pc = "lex" /\ ~isError(result) =>
    /\ RunsCounted(result, src)
    /\ NeverBelowTwo(result)
    /\ Len(LoneAs(result)) + 2 * Len(FoldedAs(result)) = Len(ShortRuns(src))

\* C19 amended: the same, as long as no "a ala a" is folded into an
\* "x ala x" token, which never happens when xAlaXPartialParsing is true; no
\* "multiple a" token has a count below 2 in any case.
C19_RunsBecomeMultipleAUnlessFolded ==
  pc = "lex" /\ ~isError(result) =>
    /\ NeverBelowTwo(result)
    /\ settings.xAlaXPartialParsing => FoldedAs(result) = <<>>
    /\ FoldedAs(result) = <<>> =>
         /\ RunsCounted(result, src)
         /\ Len(LoneAs(result)) = Len(ShortRuns(src))

C19_Witness ==
  /\ pc = "lex"
  /\ src = <<"m", "i", " ", "a", " ", "a", " ", "a", " ">>
  /\ result = OutputOf(<<List(<<[t |-> "word", s |-> <<"m", "i">>, l |-> <<>>],
                                [t |-> "multiple a", s |-> Num(3).s, l |-> <<>>]>>)>>)

\* the fold takes the first "a" of the run that follows it
C19_WitnessFold ==
  /\ pc = "lex"
  /\ src = <<"a", " ", "a", "l", "a", " ", "a", " ", "a", " ">>
  /\ result = OutputOf(<<List(<<[t |-> "x ala x", s |-> <<"a">>, l |-> <<>>],
                                [t |-> "word", s |-> <<"a">>, l |-> <<>>]>>)>>)

\* the words of a text, and the words its tokens stand for
WordItems(text) == SelectSeq(ItemsOf(text, <<>>), LAMBDA item : item[1] \in LowerCase)

CountOf(tok) == CHOOSE n \in 0..64 : Num(n).s = tok.s

WordsOf(tok) ==
  CASE tok.t = "word" -> <<tok.s>>
    [] tok.t = "multiple a" -> [i \in 1..CountOf(tok) |-> <<"a">>]
    [] tok.t = "x ala x" -> <<tok.s, <<"a", "l", "a">>, tok.s>>
    [] OTHER -> <<>>

Expanded(o) == Join([i \in 1..Len(FlatTokens(o)) |-> WordsOf(FlatTokens(o)[i])], <<>>)

\* where a word is followed by "ala" and the same word again
Folds(items) ==
  {i \in 1..(Len(items) - 2) :
     /\ items[i][1] \in LowerCase
     /\ items[i + 1] = <<"a", "l", "a">>
     /\ items[i + 2] = items[i]}

Leftmost(set) == CHOOSE i \in set : \A j \in set : i <= j

\* the leftmost such word is an "a" that continues a run of "a"
InsideRun(items) ==
  /\ Leftmost(Folds(items)) > 1
  /\ items[Leftmost(Folds(items))] = <<"a">>
  /\ items[Leftmost(Folds(items)) - 1] = <<"a">>

FirstFolded(o, items) ==
  /\ TokensOfType(o, "x ala x") # <<>>
  /\ TokensOfType(o, "x ala x")[1].s = items[Leftmost(Folds(items))]

\* under either setting the tokens stand for the words of the text, in
\* order: an "x ala x" token stands for a word, "ala" and the same word
NothingElseFolded(o, text) == Expanded(o) = WordItems(text)

C20_WitnessSeparate ==
  /\ pc = "lex"
  /\ settings.xAlaXPartialParsing
  /\ src = <<"m", "i", " ", "a", "l", "a", " ", "m", "i", " ">>
  /\ result = OutputOf(<<List(<<[t |-> "word", s |-> <<"m", "i">>, l |-> <<>>],
                                [t |-> "word", s |-> <<"a", "l", "a">>, l |-> <<>>],
                                [t |-> "word", s |-> <<"m", "i">>, l |-> <<>>]>>)>>)

\* the run takes the "a" before "ala"
C20_WitnessRun ==
  /\ pc = "lex"
  /\ ~settings.xAlaXPartialParsing
  /\ src = <<"a", " ", "a", " ", "a", "l", "a", " ", "a", " ">>
  /\ result = OutputOf(<<List(<<[t |-> "multiple a", s |-> Num(2).s, l |-> <<>>],
                                [t |-> "word", s |-> <<"a", "l", "a">>, l |-> <<>>],
                                [t |-> "word", s |-> <<"a">>, l |-> <<>>]>>)>>)

\* ------------------------------------------------------------- cartouches
\* Texts are one cartouche: the start glyph, at most MaxElements elements
\* and the end glyph.  An element is a glyph followed by nothing, by a colon
\* or by at most MaxDots dots, or it is a Latin letter.
MaxElements == 2
MaxDots == 3

Marks ==
  {<<>>, Colon} \cup {Join([i \in 1..k |-> MiddleDot], <<>>) : k \in 1..MaxDots}

Elements ==
  {Glyph(g) \o m : g \in DOMAIN UCSUR_TO_LATIN, m \in Marks} \cup {<<"m">>}

CartoucheInputs ==
  UNION {{START_OF_CARTOUCHE \o Join(es, <<>>) \o END_OF_CARTOUCHE :
            es \in [1..n -> Elements]} : n \in 1..MaxElements}

InitCartouche ==
  /\ pc = "init"
  /\ src \in CartoucheInputs
  /\ args = <<>>
  /\ fn = ""
  /\ result = OutputNone
  /\ settings = [xAlaXPartialParsing |-> FALSE]

\* cartoucheElement at the first element, right after the start glyph
DoCartoucheElement ==
  /\ pc = "init"
  /\ pc' = "cartoucheElement"
  /\ result' = cartoucheElement(Drop(src, 2))
  /\ UNCHANGED <<src, args, fn, settings>>

DoCartouche ==
  /\ pc = "init"
  /\ pc' = "cartouche"
  /\ result' = cartouche(src)
  /\ UNCHANGED <<src, args, fn, settings>>

NextCartouche ==
  \/ DoCartoucheElement
  \/ DoCartouche

SpecCartouche == InitCartouche /\ [][NextCartouche]_vars

\* the glyph of the first element of a cartouche text, the number of dots
\* that follow it, and the text after those dots
FirstGlyph(text) == text[4]
IsDotAt(text, i) == i + 1 <= Len(text) /\ SubSeq(text, i, i + 1) = MiddleDot
FirstDots(text) ==
  CHOOSE k \in 0..Len(text) :
    /\ \A i \in 1..k : IsDotAt(text, 3 + 2 * i)
    /\ ~IsDotAt(text, 5 + 2 * k)
AfterFirstDots(text) == Drop(text, 4 + 2 * FirstDots(text))

\* c: the dots, and one more for a glyph whose syllable string starts with
\* a vowel
Selected(text) ==
  IF UCSUR_TO_LATIN[FirstGlyph(text)][1] \in Vowels
  THEN FirstDots(text) + 1 ELSE FirstDots(text)

DottedFirst(text) ==
  /\ text[3] = "hs"
  /\ FirstGlyph(text) \in DOMAIN UCSUR_TO_LATIN
  /\ FirstDots(text) >= 1

\* C17: a glyph followed by k >= 1 dots decodes to the first c morae of its
\* syllable string, c = k, or k + 1 for a vowel-initial glyph; when c
\* exceeds the number of morae the element is rejected with an Unrecognized
\* error and nothing is decoded.
C17_DotsSelectMorae ==
  pc = "cartoucheElement" /\ DottedFirst(src) =>
    LET morae == Morae(UCSUR_TO_LATIN[FirstGlyph(src)]) IN
    IF Selected(src) <= Len(morae)
    THEN result = Ok(Str(Join(SubSeq(morae, 1, Selected(src)), <<>>)),
                     AfterFirstDots(src))
    ELSE isError(result) /\ "Unrecognized" \in Kinds(result)

\* a cartouche of glyphs with no mark at all, and its glyphs
AllBare(text) ==
  /\ Len(text) >= 6
  /\ \A i \in 1..((Len(text) - 4) \div 2) :
       text[2 * i + 1] = "hs" /\ text[2 * i + 2] \in DOMAIN UCSUR_TO_LATIN
  /\ Len(text) % 2 = 0
GlyphsOf(text) == [i \in 1..((Len(text) - 4) \div 2) |-> text[2 * i + 2]]

Capitalized(word) == <<toUpperCase(word[1])>> \o Tail(word)

Spell ==
  [jan |-> <<"j", "a", "n">>, pona |-> <<"p", "o", "n", "a">>,
   lon |-> <<"l", "o", "n">>, tawa |-> <<"t", "a", "w", "a">>,
   wile |-> <<"w", "i", "l", "e">>, mi |-> <<"m", "i">>,
   sina |-> <<"s", "i", "n", "a">>, ala |-> <<"a", "l", "a">>,
   ale |-> <<"a", "l", "e">>, ali |-> <<"a", "l", "i">>,
   mute |-> <<"m", "u", "t", "e">>, luka |-> <<"l", "u", "k", "a">>,
   tu |-> <<"t", "u">>, wan |-> <<"w", "a", "n">>,
   nanpa |-> <<"n", "a", "n", "p", "a">>, pi |-> <<"p", "i">>,
   en |-> <<"e", "n">>, anu |-> <<"a", "n", "u">>, li |-> <<"l", "i">>,
   e |-> <<"e">>, o |-> <<"o">>, la |-> <<"l", "a">>,
   taso |-> <<"t", "a", "s", "o">>, seme |-> <<"s", "e", "m", "e">>]

PREPOSITION == {Spell.lon, Spell.tawa}
PREVERB == {Spell.wile}
SPECIAL_SUBJECT == {Spell.mi, Spell.sina}
CONTENT_WORD ==
  {Spell.jan, Spell.pona, Spell.mi, Spell.sina, Spell.ala, Spell.ale,
   Spell.ali, Spell.mute, Spell.luka, Spell.tu, Spell.wan, Spell.nanpa,
   Spell.taso, Spell.seme} \cup PREPOSITION \cup PREVERB

Success(value, rest) == [value |-> value, rest |-> rest]
Node(t, l) == [t |-> t, s |-> <<>>, l |-> l]

\* filter(RULES) of filter.ts: the table of rules in force is fn, a set of
\* <<table, type tag>> pairs; a node is rejected when its pair is in it
filter(rules, value) == <<rules, value.t>> \notin fn

\* src.match(new RegExp("^" + regex.source)) for the regular expressions
\* of the grammar, by description
GrammarRegex(description, s) ==
  CASE description = "space" ->
         [found |-> TRUE, whole |-> TakeWhile(Spaces, s), group |-> <<>>]
    [] description = "comma" ->
         IF s # <<>> /\ s[1] = ","
         THEN [found |-> TRUE,
               whole |-> <<",">> \o TakeWhile(Spaces, Tail(s)), group |-> <<>>]
         ELSE NoMatch
    [] description = "word" -> Classed(LowerCase, LowerCase, s)
    [] description = "proper word" -> Classed(UpperCase, LowerCase, s)
    [] description = "punctuation" ->
         Classed({".", ",", ":", ";", "?", "!"}, {}, s)
    [] description = "open quotation mark" -> Classed(OpenMarks, {}, s)
    [] description = "close quotation mark" -> Classed(CloseMarks, {}, s)

grammar_match(description, input) ==
  Given(GrammarRegex(description, input), LAMBDA m :
    IF m.found THEN {Success(MatchGroups(m), Drop(input, Len(m.whole)))} ELSE {})

grammar_eol(input) == IF input = <<>> THEN {Success(Null, <<>>)} ELSE {}

comma(input) ==
  {Success(Str(<<",">>), o.rest) : o \in grammar_match("comma", input)}

optionalComma(input) == comma(input) \cup {Success(Null, input)}

word(input) == {Success(o.value.l[2], o.rest) : o \in grammar_match("word", input)}

RECURSIVE grammar_allProperWord(_)
grammar_allProperWord(input) ==
  IF grammar_match("proper word", input) = {} THEN {Success(<<>>, input)}
  ELSE UNION {{Success(<<a.value.l[2].s>> \o b.value, b.rest) :
                 b \in grammar_allProperWord(a.rest)} :
              a \in grammar_match("proper word", input)}

properWords(input) ==
  {Success(Str(Join(o.value, <<" ">>)), o.rest) :
     o \in {a \in grammar_allProperWord(input) : a.value # <<>>}}

wordFrom(set, input) == {o \in word(input) : o.value.s \in set}

specificWord(thatWord, input) == {o \in word(input) : o.value.s = thatWord}

RECURSIVE manyAtLeastOnceWordFrom(_, _)
manyWordFrom(set, input) ==
  manyAtLeastOnceWordFrom(set, input) \cup {Success(<<>>, input)}
manyAtLeastOnceWordFrom(set, input) ==
  UNION {{Success(<<a.value>> \o b.value, b.rest) :
            b \in manyWordFrom(set, a.rest)} : a \in wordFrom(set, input)}

\* mutant: the count is the number of words after the first
wordUnit_countMore(words, input) ==
  Given(wordFrom(words, input), LAMBDA wordOutput :
  {o \in
     UNION {{Success([t |-> "reduplication", s |-> w.value.s,
                      l |-> <<Num(Len(m.value))>>], m.rest) :
               m \in manyAtLeastOnceWordFrom({w.value.s}, w.rest)} :
            w \in wordOutput}
     \cup
     UNION {UNION {{Success([t |-> "x ala x", s |-> w.value.s, l |-> <<>>],
                            x.rest) :
                      x \in specificWord(w.value.s, a.rest)} :
                   a \in specificWord(Spell.ala, w.rest)} :
            w \in wordOutput}
     \cup
     {Success([t |-> "default", s |-> w.value.s, l |-> <<>>], w.rest) :
        w \in wordOutput} :
   filter("WORD_UNIT_RULES", o.value)})

\* wordUnit(word): word is wordFrom(words, ...), or specificWord of the one
\* word of words
wordUnit(words, input) ==
  Given(wordFrom(words, input), LAMBDA wordOutput :
  {o \in
     UNION {{Success([t |-> "reduplication", s |-> w.value.s,
                      l |-> <<Num(Len(m.value) + 1)>>], m.rest) :
               m \in manyAtLeastOnceWordFrom({w.value.s}, w.rest)} :
            w \in wordOutput}
     \cup
     UNION {UNION {{Success([t |-> "x ala x", s |-> w.value.s, l |-> <<>>],
                            x.rest) :
                      x \in specificWord(w.value.s, a.rest)} :
                   a \in specificWord(Spell.ala, w.rest)} :
            w \in wordOutput}
     \cup
     {Success([t |-> "default", s |-> w.value.s, l |-> <<>>], w.rest) :
        w \in wordOutput} :
   filter("WORD_UNIT_RULES", o.value)})

\* mutant: one number word is a number
number_one(input) ==
  {o \in
     UNION {UNION {UNION {UNION {
       {Success(a.value \o b.value \o c.value \o d.value \o e.value, e.rest) :
          e \in manyWordFrom({Spell.wan}, d.rest)} :
       d \in manyWordFrom({Spell.tu}, c.rest)} :
       c \in manyWordFrom({Spell.luka}, b.rest)} :
       b \in manyWordFrom({Spell.mute}, a.rest)} :
       a \in manyWordFrom({Spell.ale, Spell.ali}, input)} :
   Len(o.value) >= 1}

number(input) ==
  {o \in
     UNION {UNION {UNION {UNION {
       {Success(a.value \o b.value \o c.value \o d.value \o e.value, e.rest) :
          e \in manyWordFrom({Spell.wan}, d.rest)} :
       d \in manyWordFrom({Spell.tu}, c.rest)} :
       c \in manyWordFrom({Spell.luka}, b.rest)} :
       b \in manyWordFrom({Spell.mute}, a.rest)} :
       a \in manyWordFrom({Spell.ale, Spell.ali}, input)} :
   Len(o.value) >= 2}

RECURSIVE lazy(_, _, _)

\* the alternatives of the first many( ... ) of modifiers
modifier(input) ==
  {o \in
     {Success(Node("default", <<w.value>>), w.rest) :
        w \in wordUnit(CONTENT_WORD, input)}
     \cup
     {Success([t |-> "proper words", s |-> w.value.s, l |-> <<>>], w.rest) :
        w \in properWords(input)}
     \cup
     {Success(Node("default", <<Node("numbers", n.value)>>), n.rest) :
        n \in number(input)}
     \cup
     {Success(Node("quotation", <<q.value>>), q.rest) :
        q \in lazy("quotation", <<>>, input)} :
   filter("MODIFIER_RULES", o.value)}

RECURSIVE manyModifier(_)
manyModifier(input) ==
  {Success(<<>>, input)} \cup
  UNION {{Success(<<a.value>> \o b.value, b.rest) :
            b \in manyModifier(a.rest)} : a \in modifier(input)}

\* the second many( ... ) of modifiers
nanpaModifier(input) ==
  {o \in UNION {{Success(Node("nanpa", <<n.value, p.value>>), p.rest) :
                   p \in lazy("phrase", <<>>, n.rest)} :
                n \in wordUnit({Spell.nanpa}, input)} :
   filter("MODIFIER_RULES", o.value)}

RECURSIVE manyNanpaModifier(_)
manyNanpaModifier(input) ==
  {Success(<<>>, input)} \cup
  UNION {{Success(<<a.value>> \o b.value, b.rest) :
            b \in manyNanpaModifier(a.rest)} : a \in nanpaModifier(input)}

\* the third many( ... ) of modifiers
piModifier(input) ==
  {o \in UNION {{Success(Node("pi", <<p.value>>), p.rest) :
                   p \in lazy("phrase", <<>>, w.rest)} :
                w \in specificWord(Spell.pi, input)} :
   filter("MODIFIER_RULES", o.value)}

RECURSIVE manyPiModifier(_)
manyPiModifier(input) ==
  {Success(<<>>, input)} \cup
  UNION {{Success(<<a.value>> \o b.value, b.rest) :
            b \in manyPiModifier(a.rest)} : a \in piModifier(input)}

modifiers(input) ==
  {o \in UNION {UNION {{Success(List(a.value \o b.value \o c.value), c.rest) :
                          c \in manyPiModifier(b.rest)} :
                       b \in manyNanpaModifier(a.rest)} :
                a \in manyModifier(input)} :
   filter("MODIFIERS_RULES", o.value)}

phrase(input) ==
  {o \in
     UNION {{Success(Node("default", <<Node("numbers", n.value), m.value>>),
                     m.rest) : m \in lazy("modifiers", <<>>, n.rest)} :
            n \in number(input)}
     \cup
     UNION {UNION {{Success(Node("preverb", <<v.value, m.value, p.value>>),
                            p.rest) : p \in lazy("phrase", <<>>, m.rest)} :
                   m \in lazy("modifiers", <<>>, v.rest)} :
            v \in wordUnit(PREVERB, input)}
     \cup
     {Success(Node("preposition", <<p.value>>), p.rest) :
        p \in lazy("preposition", <<>>, input)}
     \cup
     UNION {{Success(Node("default", <<h.value, m.value>>), m.rest) :
               m \in lazy("modifiers", <<>>, h.rest)} :
            h \in wordUnit(CONTENT_WORD, input)}
     \cup
     {Success(Node("quotation", <<q.value>>), q.rest) :
        q \in lazy("quotation", <<>>, input)} :
   filter("PHRASE_RULE", o.value)}

\* let type of nestedPhrasesOnly and of multiplePredicates
GroupType(first) ==
  IF first \in {Spell.en, Spell.li, Spell.o, Spell.e}
  THEN "and conjunction" ELSE "anu"

RECURSIVE manyAtLeastOnceJoinedPhrases(_, _)

\* optionalComma().with(specificWord(first)).with(nestedPhrases(rest))
joinedPhrases(nestingRule, input) ==
  UNION {UNION {lazy("nestedPhrases", Tail(nestingRule), w.rest) :
                  w \in specificWord(Head(nestingRule), c.rest)} :
         c \in optionalComma(input)}

manyJoinedPhrases(nestingRule, input) ==
  manyAtLeastOnceJoinedPhrases(nestingRule, input) \cup {Success(<<>>, input)}

manyAtLeastOnceJoinedPhrases(nestingRule, input) ==
  UNION {{Success(<<a.value>> \o b.value, b.rest) :
            b \in manyJoinedPhrases(nestingRule, a.rest)} :
         a \in joinedPhrases(nestingRule, input)}

\* mutant: a grouping is made of one member too
nestedPhrasesOnly_many(nestingRule, input) ==
  IF nestingRule = <<>>
  THEN {Success(Node("single", <<p.value>>), p.rest) :
          p \in lazy("phrase", <<>>, input)}
  ELSE UNION {{Success(Node(GroupType(Head(nestingRule)),
                            <<group.value>> \o moreGroups.value),
                       moreGroups.rest) :
                 moreGroups \in manyJoinedPhrases(nestingRule, group.rest)} :
              group \in lazy("nestedPhrases", Tail(nestingRule), input)}

nestedPhrasesOnly(nestingRule, input) ==
  IF nestingRule = <<>>
  THEN {Success(Node("single", <<p.value>>), p.rest) :
          p \in lazy("phrase", <<>>, input)}
  ELSE UNION {{Success(Node(GroupType(Head(nestingRule)),
                            <<group.value>> \o moreGroups.value),
                       moreGroups.rest) :
                 moreGroups \in
                   manyAtLeastOnceJoinedPhrases(nestingRule, group.rest)} :
              group \in lazy("nestedPhrases", Tail(nestingRule), input)}

nestedPhrases(nestingRule, input) ==
  IF nestingRule = <<>>
  THEN {Success(Node("single", <<p.value>>), p.rest) :
          p \in lazy("phrase", <<>>, input)}
  ELSE lazy("nestedPhrasesOnly", nestingRule, input)
       \cup lazy("nestedPhrases", Tail(nestingRule), input)

subjectPhrases(input) ==
  lazy("nestedPhrasesOnly", <<Spell.en, Spell.anu>>, input)
  \cup lazy("nestedPhrasesOnly", <<Spell.anu, Spell.en>>, input)
  \cup {Success(Node("single", <<p.value>>), p.rest) :
          p \in lazy("phrase", <<>>, input)}

\* mutant: the complement is parsed as the phrases of a subject are
preposition_enAnu(input) ==
  {o \in UNION {UNION {{Success(Node("Preposition",
                                     <<w.value, m.value, p.value>>), p.rest) :
                          p \in lazy("nestedPhrases",
                                     <<Spell.en, Spell.anu>>, m.rest)} :
                       m \in lazy("modifiers", <<>>, w.rest)} :
                w \in wordUnit(PREPOSITION, input)} :
   filter("PREPOSITION_RULE", o.value)}

preposition(input) ==
  {o \in UNION {UNION {{Success(Node("Preposition",
                                     <<w.value, m.value, p.value>>), p.rest) :
                          p \in lazy("nestedPhrases", <<Spell.anu>>, m.rest)} :
                       m \in lazy("modifiers", <<>>, w.rest)} :
                w \in wordUnit(PREPOSITION, input)} :
   filter("PREPOSITION_RULE", o.value)}

\* optionalComma().with(preposition())
commaPreposition(input) ==
  UNION {lazy("preposition", <<>>, c.rest) : c \in optionalComma(input)}

RECURSIVE manyCommaPreposition(_)
manyCommaPreposition(input) ==
  {Success(<<>>, input)} \cup
  UNION {{Success(<<a.value>> \o b.value, b.rest) :
            b \in manyCommaPreposition(a.rest)} : a \in commaPreposition(input)}

\* optional(optionalComma().with(specificWord("e")).with(
\*   nestedPhrases(["e", "anu"])))
optionalObjects(input) ==
  UNION {UNION {lazy("nestedPhrases", <<Spell.e, Spell.anu>>, w.rest) :
                  w \in specificWord(Spell.e, c.rest)} :
         c \in optionalComma(input)}
  \cup {Success(Null, input)}

\* mutant: predicates with no object and no preposition are kept
associatedPredicates_bare(nestingRule, input) ==
  UNION {UNION {{Success(Node("associated",
                              <<predicates.value, objects.value,
                                List(prepositions.value)>>),
                         prepositions.rest) :
                   prepositions \in manyCommaPreposition(objects.rest)} :
                objects \in optionalObjects(predicates.rest)} :
         predicates \in lazy("nestedPhrasesOnly", nestingRule, input)}

associatedPredicates(nestingRule, input) ==
  {o \in UNION {UNION {{Success(Node("associated",
                                     <<predicates.value, objects.value,
                                       List(prepositions.value)>>),
                                prepositions.rest) :
                          prepositions \in manyCommaPreposition(objects.rest)} :
                       objects \in optionalObjects(predicates.rest)} :
                predicates \in lazy("nestedPhrasesOnly", nestingRule, input)} :
   ~(o.value.l[2] = Null /\ o.value.l[3].l = <<>>)}

RECURSIVE manyAtLeastOnceJoinedPredicates(_, _)

\* choice(associatedPredicates(nestingRule), multiplePredicates(rest))
predicatesGroup(nestingRule, input) ==
  lazy("associatedPredicates", nestingRule, input)
  \cup lazy("multiplePredicates", Tail(nestingRule), input)

\* optionalComma().with(specificWord(first)).with(choice( ... ))
joinedPredicates(nestingRule, input) ==
  UNION {UNION {predicatesGroup(nestingRule, w.rest) :
                  w \in specificWord(Head(nestingRule), c.rest)} :
         c \in optionalComma(input)}

manyJoinedPredicates(nestingRule, input) ==
  manyAtLeastOnceJoinedPredicates(nestingRule, input) \cup {Success(<<>>, input)}

manyAtLeastOnceJoinedPredicates(nestingRule, input) ==
  UNION {{Success(<<a.value>> \o b.value, b.rest) :
            b \in manyJoinedPredicates(nestingRule, a.rest)} :
         a \in joinedPredicates(nestingRule, input)}

multiplePredicates(nestingRule, input) ==
  IF nestingRule = <<>>
  THEN lazy("associatedPredicates", <<>>, input)
       \cup {Success(Node("single", <<p.value>>), p.rest) :
               p \in lazy("phrase", <<>>, input)}
  ELSE lazy("associatedPredicates", nestingRule, input)
       \cup
       UNION {{Success(Node(GroupType(Head(nestingRule)),
                            <<group.value>> \o moreGroups.value),
                       moreGroups.rest) :
                 moreGroups \in
                   manyAtLeastOnceJoinedPredicates(nestingRule, group.rest)} :
              group \in predicatesGroup(nestingRule, input)}
       \cup lazy("multiplePredicates", Tail(nestingRule), input)

\* optionalComma().with(specificWord(particle)).with(
\*   multiplePredicates([particle, "anu"]))
particlePredicates(particle, input) ==
  UNION {UNION {lazy("multiplePredicates", <<particle, Spell.anu>>, w.rest) :
                  w \in specificWord(particle, c.rest)} :
         c \in optionalComma(input)}

\* mutant: a quotation alone is a clause of phrases too
clause_quotationPhrases(input) ==
  Given(lazy("subjectPhrases", <<>>, input), LAMBDA subjectPhrasesOutput :
  {o \in
     UNION {{Success(Node("li clause",
               <<Node("single",
                   <<Node("default",
                       <<[t |-> "default", s |-> subject.value.s, l |-> <<>>],
                         List(<<>>)>>)>>),
                 predicates.value>>), predicates.rest) :
               predicates \in lazy("multiplePredicates",
                                    <<Spell.li, Spell.anu>>, subject.rest)} :
            subject \in wordFrom(SPECIAL_SUBJECT, input)}
     \cup
     UNION {{Success(Node("prepositions", <<p.value>> \o more.value),
                     more.rest) : more \in manyCommaPreposition(p.rest)} :
            p \in lazy("preposition", <<>>, input)}
     \cup
     {Success(Node("phrases", <<phrases.value>>), phrases.rest) :
        phrases \in subjectPhrasesOutput}
     \cup
     UNION {{Success(Node("o vocative", <<phrases.value>>), w.rest) :
               w \in specificWord(Spell.o, phrases.rest)} :
            phrases \in subjectPhrasesOutput}
     \cup
     UNION {{Success(Node("li clause", <<subjects.value, predicates.value>>),
                     predicates.rest) :
               predicates \in particlePredicates(Spell.li, subjects.rest)} :
            subjects \in subjectPhrasesOutput}
     \cup
     UNION {{Success(Node("o clause", <<Null, predicates.value>>),
                     predicates.rest) :
               predicates \in
                 lazy("multiplePredicates", <<Spell.o, Spell.anu>>, w.rest)} :
            w \in specificWord(Spell.o, input)}
     \cup
     UNION {{Success(Node("o clause", <<subjects.value, predicates.value>>),
                     predicates.rest) :
               predicates \in particlePredicates(Spell.o, subjects.rest)} :
            subjects \in subjectPhrasesOutput}
     \cup
     {Success(Node("quotation", <<q.value>>), q.rest) :
        q \in lazy("quotation", <<>>, input)} :
   filter("CLAUSE_RULE", o.value)})

clause(input) ==
  Given(lazy("subjectPhrases", <<>>, input), LAMBDA subjectPhrasesOutput :
  {o \in
     UNION {{Success(Node("li clause",
               <<Node("single",
                   <<Node("default",
                       <<[t |-> "default", s |-> subject.value.s, l |-> <<>>],
                         List(<<>>)>>)>>),
                 predicates.value>>), predicates.rest) :
               predicates \in lazy("multiplePredicates",
                                    <<Spell.li, Spell.anu>>, subject.rest)} :
            subject \in wordFrom(SPECIAL_SUBJECT, input)}
     \cup
     UNION {{Success(Node("prepositions", <<p.value>> \o more.value),
                     more.rest) : more \in manyCommaPreposition(p.rest)} :
            p \in lazy("preposition", <<>>, input)}
     \cup
     {Success(Node("phrases", <<phrases.value>>), phrases.rest) :
        phrases \in {p \in subjectPhrasesOutput :
                       ~(p.value.t = "single"
                         /\ p.value.l[1].t = "quotation")}}
     \cup
     UNION {{Success(Node("o vocative", <<phrases.value>>), w.rest) :
               w \in specificWord(Spell.o, phrases.rest)} :
            phrases \in subjectPhrasesOutput}
     \cup
     UNION {{Success(Node("li clause", <<subjects.value, predicates.value>>),
                     predicates.rest) :
               predicates \in particlePredicates(Spell.li, subjects.rest)} :
            subjects \in subjectPhrasesOutput}
     \cup
     UNION {{Success(Node("o clause", <<Null, predicates.value>>),
                     predicates.rest) :
               predicates \in
                 lazy("multiplePredicates", <<Spell.o, Spell.anu>>, w.rest)} :
            w \in specificWord(Spell.o, input)}
     \cup
     UNION {{Success(Node("o clause", <<subjects.value, predicates.value>>),
                     predicates.rest) :
               predicates \in particlePredicates(Spell.o, subjects.rest)} :
            subjects \in subjectPhrasesOutput}
     \cup
     {Success(Node("quotation", <<q.value>>), q.rest) :
        q \in lazy("quotation", <<>>, input)} :
   filter("CLAUSE_RULE", o.value)})

\* optional(wordUnit(specificWord("taso")).skip(optionalComma()))
optionalTaso(input) ==
  UNION {{Success(w.value, c.rest) : c \in optionalComma(w.rest)} :
         w \in wordUnit({Spell.taso}, input)}
  \cup {Success(Null, input)}

\* optional(optionalComma().with(specificWord("anu")).with(
\*   wordUnit(specificWord("seme"))))
optionalAnuSeme(input) ==
  UNION {UNION {wordUnit({Spell.seme}, w.rest) :
                  w \in specificWord(Spell.anu, c.rest)} :
         c \in optionalComma(input)}
  \cup {Success(Null, input)}

fullClause(input) ==
  {o \in UNION {UNION {{Success(Node("FullClause",
                                     <<taso.value, c.value, anuSeme.value>>),
                                anuSeme.rest) :
                          anuSeme \in optionalAnuSeme(c.rest)} :
                       c \in lazy("clause", <<>>, taso.rest)} :
                taso \in optionalTaso(input)} :
   filter("FULL_CLAUSE_RULE", o.value)}

la(input) ==
  UNION {specificWord(Spell.la, c.rest) : c \in comma(input)}
  \cup UNION {{Success(w.value, c.rest) : c \in comma(w.rest)} :
              w \in specificWord(Spell.la, input)}
  \cup specificWord(Spell.la, input)

\* la().with(fullClause())
laClause(input) == UNION {lazy("fullClause", <<>>, w.rest) : w \in la(input)}

RECURSIVE manyLaClause(_)
manyLaClause(input) ==
  {Success(<<>>, input)} \cup
  UNION {{Success(<<a.value>> \o b.value, b.rest) :
            b \in manyLaClause(a.rest)} : a \in laClause(input)}

openQuotationMark(input) ==
  {Success(o.value.l[2], o.rest) :
     o \in grammar_match("open quotation mark", input)}

closeQuotationMark(input) ==
  {Success(o.value.l[2], o.rest) :
     o \in grammar_match("close quotation mark", input)}

\* the end of a sentence that consumes the closing quotation mark
sentenceEnd_consuming(input) ==
  {Success(Str(<<>>), o.rest) : o \in grammar_eol(input)}
  \cup {Success(Str(<<>>), o.rest) : o \in closeQuotationMark(input)}
  \cup {Success(o.value.l[2], o.rest) : o \in grammar_match("punctuation", input)}

\* the choice( ... ) that ends sentence
sentenceEnd(input) ==
  {Success(Str(<<>>), o.rest) : o \in grammar_eol(input)}
  \cup {Success(Str(<<>>), input) : o \in closeQuotationMark(input)}
  \cup {Success(o.value.l[2], o.rest) : o \in grammar_match("punctuation", input)}

\* mutant: the closing quotation mark is consumed by the sentence
sentence_consuming(input) ==
  UNION {UNION {{Success([t |-> "Sentence", s |-> punctuation.value.s,
                          l |-> <<c.value>> \o moreClauses.value],
                         punctuation.rest) :
                   punctuation \in sentenceEnd_consuming(moreClauses.rest)} :
                moreClauses \in manyLaClause(c.rest)} :
         c \in lazy("fullClause", <<>>, input)}

sentence(input) ==
  UNION {UNION {{Success([t |-> "Sentence", s |-> punctuation.value.s,
                          l |-> <<c.value>> \o moreClauses.value],
                         punctuation.rest) :
                   punctuation \in sentenceEnd(moreClauses.rest)} :
                moreClauses \in manyLaClause(c.rest)} :
         c \in lazy("fullClause", <<>>, input)}

RECURSIVE manySentence(_)
manySentence(input) ==
  {Success(<<>>, input)} \cup
  UNION {{Success(<<a.value>> \o b.value, b.rest) :
            b \in manySentence(a.rest)} : a \in lazy("sentence", <<>>, input)}

\* the quotation marks that may close leftMark
Closing(leftMark) ==
  CASE leftMark \in {"dq", "ldq"} -> {"dq", "rdq"}
    [] leftMark = "lg" -> {"rg"}
    [] leftMark = "lc" -> {"rc"}

quotation(input) ==
  {o \in UNION {UNION {{Success([t |-> "Quotation",
                                 s |-> leftMark.value.s \o rightMark.value.s,
                                 l |-> sentences.value], rightMark.rest) :
                          rightMark \in closeQuotationMark(sentences.rest)} :
                       sentences \in
                         {m \in manySentence(leftMark.rest) :
                            filter("SENTENCES_RULE", List(m.value))}} :
                leftMark \in openQuotationMark(input)} :
   o.value.s[2] \in Closing(o.value.s[1])}

RECURSIVE allSentence(_)
allSentence(input) ==
  Given(lazy("sentence", <<>>, input), LAMBDA sentenceOutput :
    IF sentenceOutput = {} THEN {Success(<<>>, input)}
    ELSE UNION {{Success(<<a.value>> \o b.value, b.rest) :
                   b \in allSentence(a.rest)} : a \in sentenceOutput})

\* match(/\s*/, "space").with(allAtLeastOnce(sentence()))
allAtLeastOnceSentence(input) ==
  UNION {UNION {{Success(List(<<a.value>> \o b.value), b.rest) :
                   b \in allSentence(a.rest)} :
                a \in lazy("sentence", <<>>, m.rest)} :
         m \in grammar_match("space", input)}

\* mutant: the end of the input is not required after the sentences
parser_noEol(input) ==
  {o.value : o \in {a \in allAtLeastOnceSentence(input) :
                      filter("SENTENCES_RULE", a.value)}}

\* ... .skip(eol()).filter(filter(SENTENCES_RULE)): the candidates of parser
\* with what each leaves
parserCandidates(input) ==
  {o \in UNION {{Success(a.value, e.rest) : e \in grammar_eol(a.rest)} :
                a \in allAtLeastOnceSentence(input)} :
   filter("SENTENCES_RULE", o.value)}

parser(input) == {o.value : o \in parserCandidates(input)}

\* lazy(parser): the rule called name, looked up when it is applied; every
\* reference from one rule of the grammar to another goes through it
lazy(name, nestingRule, input) ==
  CASE name = "phrase" -> phrase(input)
    [] name = "modifiers" -> modifiers(input)
    [] name = "preposition" -> preposition(input)
    [] name = "quotation" -> quotation(input)
    [] name = "sentence" -> sentence(input)
    [] name = "subjectPhrases" -> subjectPhrases(input)
    [] name = "clause" -> clause(input)
    [] name = "fullClause" -> fullClause(input)
    [] name = "nestedPhrases" -> nestedPhrases(nestingRule, input)
    [] name = "nestedPhrasesOnly" -> nestedPhrasesOnly(nestingRule, input)
    [] name = "multiplePredicates" -> multiplePredicates(nestingRule, input)
    [] name = "associatedPredicates" -> associatedPredicates(nestingRule, input)

\* ---------------------------------------------------------------------
\* The grammar rules applied to short texts.
MaxWords == 4

\* tables of rules of filter.ts: one that rejects nothing, one that rejects
\* two shapes
RuleTables ==
  { {}, {<<"PHRASE_RULE", "preposition">>, <<"CLAUSE_RULE", "quotation">>} }

PhrasePieces ==
  { Spell.jan \o <<" ">>, Spell.lon \o <<" ">>, Spell.en \o <<" ">>,
    Spell.anu \o <<" ">>, Spell.li \o <<" ">>, Spell.e \o <<" ">> }

PhraseInputs ==
  UNION {{Join(ps, <<>>) : ps \in [1..n -> PhrasePieces]} : n \in 0..MaxWords}

\* nesting rules the grammar calls nestedPhrases and nestedPhrasesOnly with
PhrasesRules ==
  { <<Spell.anu>>, <<Spell.en, Spell.anu>>, <<Spell.e, Spell.anu>> }
\* nesting rules the grammar calls multiplePredicates with
PredicatesRules == { <<Spell.anu>>, <<Spell.li, Spell.anu>> }

InitPhrases ==
  /\ pc = "init"
  /\ src \in PhraseInputs
  /\ args = <<>>
  /\ fn \in RuleTables
  /\ result = {}
  /\ settings = [xAlaXPartialParsing |-> FALSE]

DoNestedPhrases ==
  /\ pc = "init"
  /\ pc' = "nestedPhrases"
  /\ \E nestingRule \in PhrasesRules :
       /\ args' = nestingRule
       /\ result' = nestedPhrases(nestingRule, src)
  /\ UNCHANGED <<src, fn, settings>>

DoNestedPhrasesOnly ==
  /\ pc = "init"
  /\ pc' = "nestedPhrasesOnly"
  /\ \E nestingRule \in PhrasesRules :
       /\ args' = nestingRule
       /\ result' = nestedPhrasesOnly(nestingRule, src)
  /\ UNCHANGED <<src, fn, settings>>

DoSubjectPhrases ==
  /\ pc = "init"
  /\ pc' = "subjectPhrases"
  /\ result' = subjectPhrases(src)
  /\ UNCHANGED <<src, args, fn, settings>>

DoMultiplePredicates ==
  /\ pc = "init"
  /\ pc' = "multiplePredicates"
  /\ \E nestingRule \in PredicatesRules :
       /\ args' = nestingRule
       /\ result' = multiplePredicates(nestingRule, src)
  /\ UNCHANGED <<src, fn, settings>>

DoPreposition ==
  /\ pc = "init"
  /\ pc' = "preposition"
  /\ result' = preposition(src)
  /\ UNCHANGED <<src, args, fn, settings>>

NextPhrases ==
  \/ DoNestedPhrases
  \/ DoNestedPhrasesOnly
  \/ DoSubjectPhrases
  \/ DoMultiplePredicates
  \/ DoPreposition

SpecPhrases == InitPhrases /\ [][NextPhrases]_vars

SentencePieces ==
  { Spell.jan \o <<" ">>, Spell.la \o <<" ">>, Spell.li \o <<" ">>,
    <<",", " ">>, <<".", " ">>, <<"rdq">> }

\* texts of MaxWords pieces at most, started or not by an opening quotation
\* mark
SentenceInputs ==
  UNION {{Join(ps, <<>>) : ps \in [1..n -> SentencePieces]} : n \in 0..MaxWords}
  \cup UNION {{<<"ldq">> \o Join(ps, <<>>) : ps \in [1..n -> SentencePieces]} :
              n \in 0..(MaxWords - 1)}

InitSentence ==
  /\ pc = "init"
  /\ src \in SentenceInputs
  /\ args = <<>>
  /\ fn \in RuleTables
  /\ result = {}
  /\ settings = [xAlaXPartialParsing |-> FALSE]

DoSentence ==
  /\ pc = "init"
  /\ pc' = "sentence"
  /\ result' = sentence(src)
  /\ UNCHANGED <<src, args, fn, settings>>

DoParser ==
  /\ pc = "init"
  /\ pc' = "parser"
  /\ result' = parser(src)
  /\ UNCHANGED <<src, args, fn, settings>>

NextSentence ==
  \/ DoSentence
  \/ DoParser
  \/ DoLex

SpecSentence == InitSentence /\ [][NextSentence]_vars

\* ---------------------------------------------------------------------
\* the words and the quotation marks an AST node holds, in the order of the
\* text
RECURSIVE Leaves(_)
Leaves(v) ==
  LET below == Join([i \in 1..Len(v.l) |-> Leaves(v.l[i])], <<>>) IN
  CASE v.t = "num" -> <<>>
    [] v.t = "Quotation" -> <<<<v.s[1]>>>> \o below \o <<<<v.s[2]>>>>
    [] v.t = "Sentence" -> below
    [] v.t = "reduplication" -> [i \in 1..CountOf(v.l[1]) |-> v.s]
    [] v.t = "x ala x" -> <<v.s, Spell.ala, v.s>>
    [] OTHER -> (IF v.s = <<>> THEN <<>> ELSE <<v.s>>) \o below

\* the joining particles, commas and punctuation marks leave no node of
\* their own in the AST
Dropped ==
  {Spell.en, Spell.anu, Spell.li, Spell.e, Spell.o, Spell.la, Spell.pi,
   <<",">>, <<".">>}

\* the words and the quotation marks of a text, in order
Significant(text) ==
  SelectSeq(ItemsOf(text, <<>>), LAMBDA item : item \notin Dropped)

\* the items a token tree of the lexer stands for
PlainItems(tok) ==
  IF tok.t \in {"punctuation", "comma"} THEN <<tok.s>> ELSE WordsOf(tok)
TokenItems(tok) ==
  IF tok.t = "quotation"
  THEN <<<<tok.s[1]>>>>
       \o Join([i \in 1..Len(tok.l) |-> PlainItems(tok.l[i])], <<>>)
       \o <<<<tok.s[2]>>>>
  ELSE PlainItems(tok)
LexItems(o) ==
  Join([i \in 1..Len(o.output[1].l) |-> TokenItems(o.output[1].l[i])], <<>>)

\* C13: parser and lex return a success only when the whole input has been
\* consumed: every candidate of parser holds the words and quotation marks
\* of the input up to its end, parser fails when every parse of a prefix
\* leaves text behind, and the token trees of lex stand for every item of
\* the input.
C13_WholeInputConsumed ==
  /\ pc = "parser" =>
       /\ \A v \in result : Leaves(v) = Significant(src)
       /\ (\A o \in allAtLeastOnceSentence(src) : o.rest # <<>>) => result = {}
  /\ pc = "lex" /\ ~isError(result) =>
       /\ Len(result.output) = 1
       /\ LexItems(result) = ItemsOf(src, <<>>)

\* a valid prefix followed by text that cannot be parsed: a failure
C13_Witness ==
  /\ pc = "parser"
  /\ src = Spell.jan \o <<" ", ".", " ">> \o Spell.li \o <<" ">>
  /\ \E o \in allAtLeastOnceSentence(src) : o.rest = Spell.li \o <<" ">>
  /\ result = {}

\* a success holds the whole input
C13_WitnessSuccess ==
  /\ pc = "parser"
  /\ result # {}
  /\ Len(Significant(src)) >= 3
  /\ "ldq" \in {src[i] : i \in 1..Len(src)}

\* lex fails on a closing quotation mark left after a word
C13_WitnessLex ==
  /\ pc = "lex"
  /\ src = Spell.jan \o <<" ", "rdq">>
  /\ isError(result)

\* the text a candidate of sentence has consumed
UsedBy(o) == SubSeq(src, 1, Len(src) - Len(o.rest))
LastMark(text) ==
  LET marks == SelectSeq(text, LAMBDA c : c \notin Spaces) IN
  IF marks = <<>> THEN <<>> ELSE <<marks[Len(marks)]>>

\* C16: every candidate of sentence holds at least one full clause and ends
\* at a punctuation mark, which is its punctuation, or at the end of the
\* input or before a closing quotation mark, with the empty string as
\* punctuation; the closing quotation mark is not consumed: it starts the
\* remaining input and the candidate holds the consumed text only.
C16_SentenceTerminator ==
  pc = "sentence" =>
    \A o \in result :
      /\ o.value.t = "Sentence"
      /\ Len(o.value.l) >= 1
      /\ \A i \in 1..Len(o.value.l) : o.value.l[i].t = "FullClause"
      /\ src = UsedBy(o) \o o.rest
      /\ Leaves(o.value) = Significant(UsedBy(o))
      /\ IF o.value.s = <<>>
         THEN o.rest = <<>> \/ o.rest[1] \in CloseMarks
         ELSE /\ o.value.s = LastMark(UsedBy(o))
              /\ o.value.s[1] \in {".", ",", ":", ";", "?", "!"}

\* a sentence that ends before a closing quotation mark
C16_Witness ==
  /\ pc = "sentence"
  /\ \E o \in result :
       /\ o.rest # <<>>
       /\ o.rest[1] = "rdq"
       /\ o.value.s = <<>>
       /\ UsedBy(o) # <<>>

\* sentences of two full clauses, and one that ends at a punctuation mark
C16_WitnessClauses ==
  /\ pc = "sentence"
  /\ \E o \in result : Len(o.value.l) = 2 /\ o.value.s = <<".">>

\* every node of an AST
RECURSIVE Nodes(_)
Nodes(v) == {v} \cup UNION {Nodes(v.l[i]) : i \in 1..Len(v.l)}

Groupings == {"and conjunction", "anu"}

\* C14: in every value of nestedPhrases, nestedPhrasesOnly, subjectPhrases
\* and multiplePredicates a node tagged "and conjunction" or "anu" holds at
\* least two members, and one member alone is a "single" node (or an
\* "associated" one, for predicates) that holds just it.
C14_GroupingsHoldTwo ==
  pc \in {"nestedPhrases", "nestedPhrasesOnly", "subjectPhrases",
          "multiplePredicates"} =>
    \A o \in result :
      /\ o.value.t \in Groupings \cup {"single", "associated"}
      /\ o.value.t = "single" => Len(o.value.l) = 1
      /\ \A n \in Nodes(o.value) : n.t \in Groupings => Len(n.l) >= 2

\* one text read as a conjunction of two and as a single phrase
C14_Witness ==
  /\ pc = "nestedPhrases"
  /\ \E o \in result : o.value.t = "and conjunction" /\ Len(o.value.l) = 2
  /\ \E o \in result : o.value.t = "single"

\* two predicates joined by li
C14_WitnessPredicates ==
  /\ pc = "multiplePredicates"
  /\ \E o \in result :
       /\ o.value.t = "and conjunction"
       /\ Len(o.value.l) = 2
       /\ o.value.l[1].t = "single"

\* one predicate with its prepositions is an "associated" node
C14_WitnessAssociated ==
  /\ pc = "multiplePredicates"
  /\ \E o \in result : o.value.t = "associated" /\ o.value.l[1].t = "single"

\* C15: in every Preposition value the preposition rule produces, and in
\* every Preposition nested in it, the complement phrases is tagged
\* "single" or "anu", and the members of an "anu" complement are not "and
\* conjunction" nodes.
C15_ComplementSingleOrAnu ==
  pc = "preposition" =>
    \A o \in result :
      /\ o.value.t = "Preposition"
      /\ \A n \in Nodes(o.value) :
           n.t = "Preposition" =>
             /\ n.l[3].t \in {"single", "anu"}
             /\ n.l[3].t = "anu" =>
                  \A i \in 1..Len(n.l[3].l) : n.l[3].l[i].t # "and conjunction"

\* a complement of two phrases joined by anu
C15_Witness ==
  /\ pc = "preposition"
  /\ \E o \in result : o.value.l[3].t = "anu" /\ Len(o.value.l[3].l) = 2

\* ---------------------------------------------------------------------
\* Commas (src/unnamed/part_000:277-315)

\* the number of commas of a text
Commas(text) == Len(SelectSeq(text, LAMBDA c : c = ","))

\* C21: a comma of the input is emitted as a token tree of the comma
\* variant: tokenTree on a text that starts with a comma gives a "comma"
\* token, and an accepted text has one "comma" token for each of its commas.
C21_CommaIsCommaToken ==
  /\ pc = "tokenTree" /\ src # <<>> /\ src[1] = "," =>
       ~isError(result) /\ valueOf(result).t = "comma"
  /\ pc = "lex" /\ ~isError(result) =>
       Len(TokensOfType(result, "comma")) = Commas(src)

\* ---------------------------------------------------------------------
\* Calls of the entry points, one after another (src/unnamed/part_000:319-324,
\* src/unnamed/part_002:530-536). A call builds its parsers and its Outputs
\* anew; what outlives a call is the module's state: settings, which the
\* lexer reads and no call writes, the table of filter rules, and the regular
\* expressions VOWEL and MORAE, used through RegExp.test without the g flag
\* and String.match, which both search from the start of the word.

Entries == {"lex", "parser"}

\* mutant: a call goes on with the text the call before it was given
Call_stale(entry, text) ==
  IF entry = "lex"
  THEN lex(IF pc = "other" THEN args.other ELSE text, settings.xAlaXPartialParsing)
  ELSE parser(IF pc = "other" THEN args.other ELSE text)

\* lex(text) or parser(text) under the configuration in force
Call(entry, text) ==
  IF entry = "lex" THEN lex(text, settings.xAlaXPartialParsing)
  ELSE parser(text)

CallInputs ==
  { <<>>, <<"m", "i", " ">>, <<"m", "i", " ", "a", " ", "a", " ">>,
    <<"a", " ", "a", "l", "a", " ", "a", " ">>, <<"m", "i", ".", " ">>,
    <<"lg", "m", "i", " ", "rg">>, <<"ldq", "m", "i", " ", "rdq">>,
    START_OF_CARTOUCHE \o Glyph("T") \o MiddleDot \o END_OF_CARTOUCHE }

\* args: the entry point under watch, what its first call returned, and the
\* text of the call made in between
InitCalls ==
  /\ pc = "idle"
  /\ src \in CallInputs
  /\ settings \in [xAlaXPartialParsing : BOOLEAN]
  /\ fn \in RuleTables
  /\ args \in [entry : Entries, first : {OutputNone}, other : {<<>>}]
  /\ result = OutputNone

DoFirstCall ==
  /\ pc = "idle"
  /\ pc' = "first"
  /\ result' = Call(args.entry, src)
  /\ args' = [args EXCEPT !.first = result']
  /\ UNCHANGED <<src, fn, settings>>

DoOtherCall ==
  /\ pc = "first"
  /\ \E entry \in Entries, text \in CallInputs \ {src} :
       /\ result' = Call(entry, text)
       /\ args' = [args EXCEPT !.other = text]
  /\ pc' = "other"
  /\ UNCHANGED <<src, fn, settings>>

DoSecondCall ==
  /\ pc \in {"first", "other"}
  /\ pc' = "second"
  /\ result' = Call(args.entry, src)
  /\ UNCHANGED <<src, args, fn, settings>>

NextCalls ==
  \/ DoFirstCall
  \/ DoOtherCall
  \/ DoSecondCall

SpecCalls == InitCalls /\ [][NextCalls]_vars

C22_WitnessParser ==
  /\ pc = "second"
  /\ args.entry = "parser"
  /\ args.other # <<>>
  /\ result # {}
  /\ result = args.first

\* ---------------------------------------------------------------------
\* What makes a parse end: the parsers that are repeated, and the rules a
\* rule applies to its own input.
MaxRepeat == 3
MaxRepeatLex == 2

RepeatPieces ==
  { Spell.jan \o <<" ">>, Spell.lon \o <<" ">>, Spell.en \o <<" ">>,
    Spell.li \o <<" ">>, Spell.la \o <<" ">>, Spell.pi \o <<" ">>,
    Spell.nanpa \o <<" ">>, Spell.ale \o <<" ">>, <<"K", "i", " ">>,
    <<",", " ">>, <<".", " ">> }

RepeatInputs ==
  UNION {{Join(ps, <<>>) : ps \in [1..n -> RepeatPieces]} : n \in 0..MaxRepeat}

RepeatLexInputs ==
  CartoucheInputs \cup
  UNION {{Join(ps, <<>>) : ps \in [1..n -> LexPieces]} : n \in 0..MaxRepeatLex}

IsProperSuffix(rest, text) ==
  /\ Len(rest) < Len(text)
  /\ rest = SubSeq(text, Len(text) - Len(rest) + 1, Len(text))

\* the parsers the grammar hands to many, manyAtLeastOnce, all and
\* allAtLeastOnce
RepeatedParsers ==
  { <<"properWord", <<>>>>, <<"wordFrom", <<>>>>, <<"specificWord", <<>>>>,
    <<"modifier", <<>>>>, <<"nanpaModifier", <<>>>>, <<"piModifier", <<>>>>,
    <<"commaPreposition", <<>>>>, <<"laClause", <<>>>>, <<"sentence", <<>>>> }
  \cup {<<"joinedPhrases", nestingRule>> : nestingRule \in PhrasesRules}
  \cup {<<"joinedPredicates", nestingRule>> : nestingRule \in PredicatesRules}

Repeated(name, nestingRule, input) ==
  CASE name = "properWord" -> grammar_match("proper word", input)
    [] name = "wordFrom" -> wordFrom({Spell.ale, Spell.ali}, input)
    [] name = "specificWord" -> specificWord(Spell.ale, input)
    [] name = "modifier" -> modifier(input)
    [] name = "nanpaModifier" -> nanpaModifier(input)
    [] name = "piModifier" -> piModifier(input)
    [] name = "commaPreposition" -> commaPreposition(input)
    [] name = "laClause" -> laClause(input)
    [] name = "sentence" -> lazy("sentence", <<>>, input)
    [] name = "joinedPhrases" -> joinedPhrases(nestingRule, input)
    [] name = "joinedPredicates" -> joinedPredicates(nestingRule, input)

\* the parsers the lexer hands to all and allAtLeastOnce
RepeatedLexers ==
  { "properWord", "specificWord", "cartoucheSpace", "colon",
    "cartoucheElement", "cartouche", "tokenTree" }

RepeatedLex(name, text, xAlaXPartialParsing) ==
  CASE name = "properWord" -> properWord(text)
    [] name = "specificWord" -> lex_specificWord(<<"a">>, text)
    [] name = "cartoucheSpace" ->
         choiceOnlyOneOf(<<
           lex_match("space+", "space", text),
           specificUcsurCharacter(COMBINING_CARTOUCHE_EXTENSION,
                                  "combining cartouche extension", text)>>)
    [] name = "colon" -> markSpace(MiddleDot, text)
    [] name = "cartoucheElement" -> cartoucheElement(text)
    [] name = "cartouche" -> cartouche(text)
    [] name = "tokenTree" -> tokenTree(text, TRUE, xAlaXPartialParsing)

\* nesting rules the grammar reaches: the ones it starts with and their tails
NestingRules ==
  { <<>>, <<Spell.anu>>, <<Spell.en>>, <<Spell.en, Spell.anu>>,
    <<Spell.anu, Spell.en>>, <<Spell.e, Spell.anu>>, <<Spell.li, Spell.anu>>,
    <<Spell.o, Spell.anu>> }

Rules ==
  {<<name, <<>>>> : name \in {"sentence", "fullClause", "clause", "quotation",
                              "subjectPhrases", "preposition", "modifiers",
                              "phrase"}}
  \cup {<<name, nestingRule>> :
          name \in {"nestedPhrases", "nestedPhrasesOnly", "multiplePredicates",
                    "associatedPredicates"},
          nestingRule \in NestingRules}

\* mutant: nestedPhrases goes on with the nesting rule it was given
FirstRules_sameRule(name, nestingRule) ==
  IF name = "nestedPhrases" /\ nestingRule # <<>>
  THEN { <<"nestedPhrasesOnly", nestingRule>>,
         <<"nestedPhrases", nestingRule>> }
  ELSE {}

\* the rules a rule applies to the very text it was applied to: the first
\* parser of each of its alternatives, and the one after a parser that can
\* succeed without taking a character (optional, many)
FirstRules(name, nestingRule) ==
  CASE name = "sentence" -> { <<"fullClause", <<>>>> }
    [] name = "fullClause" -> { <<"clause", <<>>>> }
    [] name = "clause" ->
         { <<"preposition", <<>>>>, <<"subjectPhrases", <<>>>>,
           <<"quotation", <<>>>> }
    [] name = "quotation" -> {}
    [] name = "subjectPhrases" ->
         { <<"nestedPhrasesOnly", <<Spell.en, Spell.anu>>>>,
           <<"nestedPhrasesOnly", <<Spell.anu, Spell.en>>>>,
           <<"phrase", <<>>>> }
    [] name = "preposition" -> {}
    [] name = "modifiers" -> { <<"quotation", <<>>>> }
    [] name = "phrase" -> { <<"preposition", <<>>>>, <<"quotation", <<>>>> }
    [] name = "nestedPhrasesOnly" ->
         IF nestingRule = <<>> THEN { <<"phrase", <<>>>> }
         ELSE { <<"nestedPhrases", Tail(nestingRule)>> }
    [] name = "nestedPhrases" ->
         IF nestingRule = <<>> THEN { <<"phrase", <<>>>> }
         ELSE { <<"nestedPhrasesOnly", nestingRule>>,
                <<"nestedPhrases", Tail(nestingRule)>> }
    [] name = "associatedPredicates" ->
         { <<"nestedPhrasesOnly", nestingRule>> }
    [] name = "multiplePredicates" ->
         IF nestingRule = <<>>
         THEN { <<"associatedPredicates", <<>>>>, <<"phrase", <<>>>> }
         ELSE { <<"associatedPredicates", nestingRule>>,
                <<"multiplePredicates", Tail(nestingRule)>> }

InitRepeat ==
  /\ pc = "init"
  /\ \/ /\ src \in RepeatInputs
        /\ args = "grammar"
        /\ fn \in RuleTables
        /\ settings = [xAlaXPartialParsing |-> FALSE]
     \/ /\ src \in RepeatLexInputs
        /\ args = "lexer"
        /\ fn = {}
        /\ settings \in [xAlaXPartialParsing : BOOLEAN]
  /\ result = {}

\* one application of a parser the grammar repeats
DoRepeated ==
  /\ pc = "init"
  /\ args = "grammar"
  /\ pc' = "repeated"
  /\ \E repeated \in RepeatedParsers :
       /\ args' = repeated
       /\ result' = Repeated(repeated[1], repeated[2], src)
  /\ UNCHANGED <<src, fn, settings>>

\* one application of a parser the lexer repeats, at any place of the text
DoRepeatedLex ==
  /\ pc = "init"
  /\ args = "lexer"
  /\ pc' = "repeated lex"
  /\ \E name \in RepeatedLexers, from \in 0..Len(src) :
       /\ args' = <<name, Drop(src, from)>>
       /\ result' = RepeatedLex(name, Drop(src, from),
                                settings.xAlaXPartialParsing)
  /\ UNCHANGED <<src, fn, settings>>

\* the whole parse of the text
DoParse ==
  /\ pc = "init"
  /\ args = "grammar"
  /\ pc' = "parser"
  /\ result' = parser(src)
  /\ UNCHANGED <<src, args, fn, settings>>

\* a rule is applied to the text
DoEnter ==
  /\ pc = "init"
  /\ args = "grammar"
  /\ src = <<>>
  /\ pc' = "rule"
  /\ \E rule \in Rules : args' = <<rule>>
  /\ result' = {}
  /\ UNCHANGED <<src, fn, settings>>

\* the rule applies another rule before it has taken a character
DoFirstRule ==
  /\ pc = "rule"
  /\ Len(args) <= Cardinality(Rules)
  /\ \E rule \in FirstRules(args[Len(args)][1], args[Len(args)][2]) :
       args' = Append(args, rule)
  /\ UNCHANGED <<pc, src, fn, result, settings>>

NextRepeat ==
  \/ DoRepeated
  \/ DoRepeatedLex
  \/ DoParse
  \/ DoEnter
  \/ DoFirstRule

SpecRepeat == InitRepeat /\ [][NextRepeat]_vars

\* C23: a parser that is repeated leaves less text than it was given each
\* time it succeeds, in the grammar and in the lexer; no rule of the
\* grammar is applied again to the text it was applied to before a
\* character of it was taken; the whole parse of a text ends, with a set of
\* trees that is empty when it fails.
C23_ParseTerminates ==
  /\ pc = "repeated" => \A o \in result : IsProperSuffix(o.rest, src)
  /\ pc = "repeated lex" /\ ~isError(result)
       => IsProperSuffix(restOf(result), args[2])
  /\ pc = "rule" =>
       \A i, j \in 1..Len(args) : i < j => args[i] # args[j]
  /\ pc = "parser" =>
       \A tree \in result :
         /\ tree.l # <<>>
         /\ \A i \in 1..Len(tree.l) : tree.l[i].t = "Sentence"

\* a repeated parser of the grammar that took a rule of several words
C23_Witness ==
  /\ pc = "repeated"
  /\ args[1] = "joinedPhrases"
  /\ \E o \in result : o.rest # <<>> /\ Len(src) - Len(o.rest) > 4

\* a repeated parser of the lexer that succeeded in the middle of a text
C23_WitnessLex ==
  /\ pc = "repeated lex"
  /\ args[1] = "cartoucheElement"
  /\ args[2] # src
  /\ ~isError(result)

\* nestedPhrases reached from a clause, with nothing taken, by five rules
C23_WitnessRule ==
  /\ pc = "rule"
  /\ Len(args) >= 5
  /\ args[1][1] = "clause"
  /\ args[Len(args)][1] = "phrase"

\* a text that parses
C23_WitnessParse ==
  /\ pc = "parser"
  /\ result # {}

\* ---------------------------------------------------------------------
\* The branches of match and of quotation that throw UnreachableError.
MaxMarks == 3

MarkPieces ==
  { Spell.mi \o <<" ">>, <<" ">>, <<".">>, <<"dq">>, <<"ldq">>, <<"rdq">>,
    <<"lg">>, <<"rg">>, <<"lc">>, <<"rc">> }

MarkInputs ==
  UNION {{Join(ps, <<>>) : ps \in [1..n -> MarkPieces]} : n \in 0..MaxMarks}

\* mutant: /[^\s]+/, that finds nothing in a text of spaces
NonSpaceRun_plus(text) ==
  IF \E i \in 1..Len(text) : text[i] \notin Spaces
  THEN [found |-> TRUE,
        whole |-> LET from == CHOOSE i \in 1..Len(text) :
                                /\ text[i] \notin Spaces
                                /\ \A j \in 1..(i - 1) : text[j] \in Spaces
                  IN  TakeWhile({text[i] : i \in 1..Len(text)} \ Spaces,
                                Drop(text, from - 1)),
        group |-> <<>>]
  ELSE NoMatch

\* src.match(/[^\s]*/): the run of characters other than spaces the text
\* starts with, empty when it starts with a space
NonSpaceRun(text) ==
  [found |-> TRUE,
   whole |-> TakeWhile({text[i] : i \in 1..Len(text)} \ Spaces, text),
   group |-> <<>>]

\* the branch match takes on a text, given what its regular expression found
MatchBranch(m, text) ==
  IF m.found THEN "value"
  ELSE IF text = <<>> THEN "end of sentence"
  ELSE IF NonSpaceRun(text).found THEN "Unexpected"
  ELSE "Unreachable"

GrammarDescriptions ==
  { "space", "comma", "word", "proper word", "punctuation",
    "open quotation mark", "close quotation mark" }

LexerRegexes ==
  { "spaces", "space+", "latinWord", "properWord", "latinLetter",
    "openQuotationMark", "closeQuotationMark", "comma", "punctuation" }

\* the branch the function mapped over quotation takes on a pair of marks
QuotationBranch(leftMark, rightMark) ==
  IF leftMark \in {"dq", "ldq"}
  THEN IF rightMark # "dq" /\ rightMark # "rdq"
       THEN "Unrecognized" ELSE "value"
  ELSE IF leftMark = "lg"
  THEN IF rightMark # "rg" THEN "Unrecognized" ELSE "value"
  ELSE IF leftMark = "lc"
  THEN IF rightMark # "rc" THEN "Unrecognized" ELSE "value"
  ELSE "Unreachable"

\* the pairs of marks quotation of the grammar hands to that function
quotationMarks(input) ==
  UNION {UNION {{<<leftMark.value.s[1], rightMark.value.s[1]>> :
                   rightMark \in closeQuotationMark(sentences.rest)} :
                sentences \in
                  {m \in manySentence(leftMark.rest) :
                     filter("SENTENCES_RULE", List(m.value))}} :
         leftMark \in openQuotationMark(input)}

InitMarks ==
  /\ pc = "init"
  /\ src \in MarkInputs
  /\ args = <<>>
  /\ fn \in RuleTables
  /\ result = {}
  /\ settings \in [xAlaXPartialParsing : BOOLEAN]

\* match of the grammar, at any place of the text
DoGrammarMatch ==
  /\ pc = "init"
  /\ pc' = "match"
  /\ \E description \in GrammarDescriptions, from \in 0..Len(src) :
       /\ args' = <<description, Drop(src, from)>>
       /\ result' = MatchBranch(GrammarRegex(description, Drop(src, from)),
                                Drop(src, from))
  /\ UNCHANGED <<src, fn, settings>>

\* match of the lexer, at any place of the text
DoLexerMatch ==
  /\ pc = "init"
  /\ pc' = "match"
  /\ \E regex \in LexerRegexes, from \in 0..Len(src) :
       /\ args' = <<regex, Drop(src, from)>>
       /\ result' = MatchBranch(RegexExec(regex, Drop(src, from)),
                                Drop(src, from))
  /\ UNCHANGED <<src, fn, settings>>

\* quotation of the grammar, at any place of the text
DoQuotation ==
  /\ pc = "init"
  /\ pc' = "quotation"
  /\ \E from \in 0..Len(src) :
       /\ args' = Drop(src, from)
       /\ result' = {QuotationBranch(marks[1], marks[2]) :
                       marks \in quotationMarks(Drop(src, from))}
  /\ UNCHANGED <<src, fn, settings>>

\* the lexer on the whole text
DoLexMarks ==
  /\ pc = "init"
  /\ pc' = "lex"
  /\ result' = lex(src, settings.xAlaXPartialParsing)
  /\ UNCHANGED <<src, args, fn, settings>>

NextMarks ==
  \/ DoGrammarMatch
  \/ DoLexerMatch
  \/ DoQuotation
  \/ DoLexMarks

SpecMarks == InitMarks /\ [][NextMarks]_vars

\* C24: on no text does match or quotation take its UnreachableError
\* branch, in the grammar or in the lexer, and the Output of the lexer
\* holds no UnreachableError.
C24_NoUnreachable ==
  /\ pc = "match" => result # "Unreachable"
  /\ pc = "quotation" => "Unreachable" \notin result
  /\ pc = "lex" =>
       \A i \in 1..Len(result.errors) : result.errors[i].kind # "Unreachable"

\* match fails on a text that starts with a space: the token it reports is
\* the empty run
C24_Witness ==
  /\ pc = "match"
  /\ result = "Unexpected"
  /\ args[2] # <<>>
  /\ args[2][1] \in Spaces

\* quotation of the grammar goes through its last family of marks
C24_WitnessQuotation ==
  /\ pc = "quotation"
  /\ args # <<>>
  /\ args[1] = "lc"
  /\ result = {"value"}

\* the lexer goes through the last family of marks of its quotation
C24_WitnessLex ==
  /\ pc = "lex"
  /\ src # <<>>
  /\ src[1] = "lc"
  /\ ~isError(result)
  /\ result.output[1].l[1].t = "quotation"

\* ---------------------------------------------------------------------
\* Quotations inside quotations.
MaxNest == 3

\* the pairs of marks a level of quotation is written with
MarkPairs == { <<"ldq", "rdq">>, <<"lg", "rg">>, <<"lc", "rc">> }

\* content inside the quotations marks[1] (the outermost) .. marks[n]
RECURSIVE Nested(_, _)
Nested(marks, content) ==
  IF marks = <<>> THEN content
  ELSE <<Head(marks)[1]>> \o Nested(Tail(marks), content)
       \o <<Head(marks)[2]>>

NestedInputs ==
  UNION {{Nested(marks, content) :
            marks \in [1..n -> MarkPairs],
            content \in {Spell.mi \o <<" ">>, Spell.jan \o <<" ">>}} :
         n \in 0..MaxNest}

\* how many quotations the text opens before its first word
RECURSIVE Nesting(_)
Nesting(text) ==
  IF text # <<>> /\ Head(text) \in OpenMarks THEN 1 + Nesting(Tail(text))
  ELSE 0

\* how many Quotation nodes lie one inside the other in a tree: how deep
\* quotation was applied inside itself to build it
RECURSIVE QuotationDepth(_)
QuotationDepth(tree) ==
  LET below == {QuotationDepth(tree.l[i]) : i \in 1..Len(tree.l)}
      deepest == IF below = {} THEN 0
                 ELSE CHOOSE d \in below : \A e \in below : e <= d
  IN  (IF tree.t = "Quotation" THEN 1 ELSE 0) + deepest

InitNested ==
  /\ pc = "init"
  /\ src \in NestedInputs
  /\ args = <<>>
  /\ fn \in RuleTables
  /\ result = {}
  /\ settings = [xAlaXPartialParsing |-> FALSE]

DoParseNested ==
  /\ pc = "init"
  /\ pc' = "parser"
  /\ result' = parser(src)
  /\ UNCHANGED <<src, args, fn, settings>>

NextNested == DoParseNested

SpecNested == InitNested /\ [][NextNested]_vars

\* C25: there is a limit, below the deepest nesting of the texts tried, such
\* that a text whose quotations are nested deeper than it fails, and no tree
\* returned was built by quotation applied deeper than it.
C25_DepthLimited ==
  pc = "parser" =>
    \E limit \in 0..(MaxNest - 1) :
      /\ Nesting(src) > limit => result = {}
      /\ \A tree \in result : QuotationDepth(tree) <= limit

\* ---------------------------------------------------------------------
\* Number words.
MaxNumberWords == 3

NumberWords ==
  <<{Spell.ale, Spell.ali}, {Spell.mute}, {Spell.luka}, {Spell.tu},
    {Spell.wan}>>

\* the place of a number word in the order of number
Rank(numberWord) == CHOOSE i \in 1..Len(NumberWords) : numberWord \in NumberWords[i]

NumberPieces ==
  {w \o <<" ">> : w \in UNION {NumberWords[i] : i \in 1..Len(NumberWords)}}
  \cup {Spell.jan \o <<" ">>}

NumberInputs ==
  UNION {{Join(ps, <<>>) : ps \in [1..n -> NumberPieces]} :
         n \in 0..MaxNumberWords}

InitNumber ==
  /\ pc = "init"
  /\ src \in NumberInputs
  /\ args = <<>>
  /\ fn \in RuleTables
  /\ result = {}
  /\ settings = [xAlaXPartialParsing |-> FALSE]

DoNumber ==
  /\ pc = "init"
  /\ pc' = "number"
  /\ result' = number(src)
  /\ UNCHANGED <<src, args, fn, settings>>

DoPhraseNumber ==
  /\ pc = "init"
  /\ pc' = "phrase"
  /\ result' = lazy("phrase", <<>>, src)
  /\ UNCHANGED <<src, args, fn, settings>>

NextNumber ==
  \/ DoNumber
  \/ DoPhraseNumber

SpecNumber == InitNumber /\ [][NextNumber]_vars

\* C27: a success of number holds two number words or more, the words the
\* text starts with, in the order ale/ali, mute, luka, tu, wan; the head
\* of a phrase made of numbers holds two words or more, and a phrase that
\* is one number word has that word as a plain head.
C27_NumberAtLeastTwoInOrder ==
  /\ pc = "number" =>
       \A o \in result :
         /\ Len(o.value) >= 2
         /\ \A i, j \in 1..Len(o.value) :
              i < j => Rank(o.value[i].s) <= Rank(o.value[j].s)
         /\ Join([i \in 1..Len(o.value) |-> o.value[i].s \o <<" ">>], <<>>)
              \o o.rest = src
  /\ pc = "phrase" =>
       /\ \A o \in result :
            o.value.l[1].t = "numbers" => Len(o.value.l[1].l) >= 2
       /\ src \in NumberPieces =>
            result = {Success(Node("default",
                        <<[t |-> "default", s |-> SubSeq(src, 1, Len(src) - 1),
                           l |-> <<>>], List(<<>>)>>), <<>>)}

\* three number words in order, taken whole
C27_Witness ==
  /\ pc = "number"
  /\ \E o \in result : Len(o.value) = 3 /\ o.rest = <<>>
  /\ src = Spell.ale \o <<" ">> \o Spell.tu \o <<" ">> \o Spell.wan \o <<" ">>

\* number words out of order: nothing taken past the first
C27_WitnessOrder ==
  /\ pc = "number"
  /\ src = Spell.wan \o <<" ">> \o Spell.tu \o <<" ">>
  /\ result = {}

\* a lone number word is a phrase
C27_WitnessLone ==
  /\ pc = "phrase"
  /\ src = Spell.wan \o <<" ">>
  /\ result # {}

\* ---------------------------------------------------------------------
\* Predicates with objects and prepositions.

\* every node of the tree tagged "associated" has objects or a preposition
RECURSIVE AssociatedHold(_)
AssociatedHold(tree) ==
  /\ tree.t = "associated" => tree.l[2] # Null \/ tree.l[3].l # <<>>
  /\ \A i \in 1..Len(tree.l) : AssociatedHold(tree.l[i])

\* C28: in what multiplePredicates returns, a value tagged "associated" has
\* objects that are not null or a preposition at least, at any depth; a
\* text that is one phrase and no more is returned as "single" only.
C28_AssociatedHasObjectsOrPrepositions ==
  pc = "multiplePredicates" =>
    /\ \A o \in result : AssociatedHold(o.value)
    /\ src = Spell.jan \o <<" ">> =>
         result # {} /\ \A o \in result : o.value.t = "single"

\* predicates with objects and no preposition
C28_Witness ==
  /\ pc = "multiplePredicates"
  /\ \E o \in result :
       /\ o.value.t = "associated"
       /\ o.value.l[2] # Null
       /\ o.value.l[3].l = <<>>

\* predicates with a preposition and no objects
C28_WitnessPreposition ==
  /\ pc = "multiplePredicates"
  /\ \E o \in result :
       /\ o.value.t = "associated"
       /\ o.value.l[2] = Null
       /\ o.value.l[3].l # <<>>

\* a bare phrase
C28_WitnessSingle ==
  /\ pc = "multiplePredicates"
  /\ src = Spell.jan \o <<" ">>
  /\ \E o \in result : o.value.t = "single"

\* ---------------------------------------------------------------------
\* A quotation alone as a clause.

\* no clause of the tree is of type "phrases" with one phrase that is a
\* quotation
RECURSIVE NoQuotationAsPhrases(_)
NoQuotationAsPhrases(tree) ==
  /\ ~(/\ tree.t = "phrases"
       /\ tree.l[1].t = "single"
       /\ tree.l[1].l[1].t = "quotation")
  /\ \A i \in 1..Len(tree.l) : NoQuotationAsPhrases(tree.l[i])

\* the clause of a sentence: the second member of its first full clause
ClauseOf(sentenceTree) == sentenceTree.l[1].l[2]

\* C29: no sentence returned holds, at any depth, a clause of type
\* "phrases" made of one phrase that is a quotation; a sentence that is a
\* quotation alone is returned with a clause of type "quotation" only.
C29_NoQuotationAsPhrases ==
  pc = "sentence" =>
    /\ \A o \in result : NoQuotationAsPhrases(o.value)
    /\ \A o, other \in result :
         ClauseOf(o.value).t = "quotation" /\ other.rest = o.rest
           => ClauseOf(other.value).t = "quotation"

\* a quotation alone, returned as a clause of type "quotation"
C29_Witness ==
  /\ pc = "sentence"
  /\ \E o \in result : ClauseOf(o.value).t = "quotation" /\ o.rest = <<>>

\* a clause of phrases
C29_WitnessPhrases ==
  /\ pc = "sentence"
  /\ \E o \in result : ClauseOf(o.value).t = "phrases"

\* ---------------------------------------------------------------------
\* Word units.
MaxUnitWords == 4

UnitPieces ==
  { Spell.jan \o <<" ">>, Spell.pona \o <<" ">>, Spell.ala \o <<" ">>,
    Spell.wile \o <<" ">> }

UnitInputs ==
  UNION {{Join(ps, <<>>) : ps \in [1..n -> UnitPieces]} : n \in 0..MaxUnitWords}

\* the sets of words wordUnit is given a parser of
UnitWords == { CONTENT_WORD, PREVERB, {Spell.jan} }

InitWordUnit ==
  /\ pc = "init"
  /\ src \in UnitInputs
  /\ args = {}
  /\ fn \in RuleTables
  /\ result = {}
  /\ settings = [xAlaXPartialParsing |-> FALSE]

DoWordUnit ==
  /\ pc = "init"
  /\ pc' = "wordUnit"
  /\ \E words \in UnitWords :
       /\ args' = words
       /\ result' = wordUnit(words, src)
  /\ UNCHANGED <<src, fn, settings>>

NextWordUnit == DoWordUnit

SpecWordUnit == InitWordUnit /\ [][NextWordUnit]_vars

\* the text a success took
Taken(o) == SubSeq(src, 1, Len(src) - Len(o.rest))

\* a word written k times
Times(aWord, k) == Join([i \in 1..k |-> aWord \o <<" ">>], <<>>)

\* C30: a "reduplication" unit has a count of two or more, the number of
\* times its word stands at the start of the text taken; an "x ala x" unit
\* took a word, "ala" and the same word; when the first word of the text is
\* accepted, the "default" unit that takes that word alone is returned,
\* under rule tables that reject no word unit.
C30_WordUnitShapes ==
  pc = "wordUnit" =>
    /\ \A o \in result :
         /\ o.value.t = "reduplication" =>
              \E count \in 2..MaxUnitWords :
                /\ o.value.l = <<Num(count)>>
                /\ Taken(o) = Times(o.value.s, count)
         /\ o.value.t = "x ala x" =>
              Taken(o) = o.value.s \o <<" ">> \o Spell.ala \o <<" ">>
                         \o o.value.s \o <<" ">>
    /\ \A firstWord \in args :
         (/\ Len(src) > Len(firstWord)
          /\ Times(firstWord, 1) = SubSeq(src, 1, Len(firstWord) + 1))
         => Success([t |-> "default", s |-> firstWord, l |-> <<>>],
                    Drop(src, Len(firstWord) + 1)) \in result

\* a word three times: units of two and of three, and the default one
C30_Witness ==
  /\ pc = "wordUnit"
  /\ \E o \in result : o.value.t = "reduplication" /\ o.value.l = <<Num(3)>>
  /\ \E o \in result : o.value.t = "reduplication" /\ o.value.l = <<Num(2)>>
  /\ \E o \in result : o.value.t = "default"

\* x ala x
C30_WitnessAla ==
  /\ pc = "wordUnit"
  /\ \E o \in result : o.value.t = "x ala x" /\ o.value.s = Spell.jan

\* x ala y: no "x ala x" unit
C30_WitnessOther ==
  /\ pc = "wordUnit"
  /\ src = Spell.jan \o <<" ">> \o Spell.ala \o <<" ">> \o Spell.pona \o <<" ">>
  /\ args = CONTENT_WORD
  /\ \A o \in result : o.value.t = "default"

====
